---- MODULE Spec2Model ----
(***************************************************************************)
(* Model of the three batch pipelines of evaluacion_javascript:           *)
(*   operaciones   (validarOperacion / procesarOperacion /                *)
(*                  ejecutarOperaciones),                                 *)
(*   solicitudes   (validarSolicitudConCallback /                         *)
(*                  procesarSolicitudConPromesa / ejecutarSolicitudes),   *)
(*   transacciones (validarTransaccionConCallback /                       *)
(*                  procesarTransaccionConPromesa / ejecutarAnalisis),    *)
(* and of the menu loop that starts them.                                 *)
(*                                                                         *)
(* JavaScript values are tagged records of one shape, strings are TLA+    *)
(* strings (TLC evaluates Len, \o, SubSeq, Head and Tail on them), and    *)
(* template literals are concatenations.  The texts of the program are    *)
(* written in ASCII: an accented letter appears as its base letter, the   *)
(* inverted exclamation mark is left out and the long dash is -.          *)
(***************************************************************************)
EXTENDS Integers, Sequences, FiniteSets, TLC

(***************************************************************************)
(* JavaScript values.                                                      *)
(*   ty : the value's kind; k : for numbers "int", "frac" (n + 1/2),       *)
(*   "nan" or "inf" (n is the sign); n, s, b : the payloads.               *)
(***************************************************************************)
JSVal(ty, k, n, s, b) == [ty |-> ty, k |-> k, n |-> n, s |-> s, b |-> b]

Undef     == JSVal("undefined", "", 0, "", FALSE)
Null      == JSVal("null", "", 0, "", FALSE)
Num(n)    == JSVal("number", "int", n, "", FALSE)
Frac(n)   == JSVal("number", "frac", n, "", FALSE)
NaN       == JSVal("number", "nan", 0, "", FALSE)
Inf(sg)   == JSVal("number", "inf", sg, "", FALSE)
Str(s)    == JSVal("string", "", 0, s, FALSE)
Bool(b)   == JSVal("boolean", "", 0, "", b)
Date(n)   == JSVal("date", "", n, "", FALSE)
Obj       == JSVal("object", "", 0, "", FALSE)

\* typeof v
typeof(v) == IF v.ty \in {"null", "date", "object"} THEN "object" ELSE v.ty

\* Number.isInteger(v), Number.isFinite(v)
NumberIsInteger(v) == v.ty = "number" /\ v.k = "int"
NumberIsFinite(v)  == v.ty = "number" /\ v.k \in {"int", "frac"}

\* v < m, v > m, v <= m for a number v and an integer literal m
\* (every comparison with NaN is false).
JSLt(v, m) ==
  CASE v.k = "int"  -> v.n < m
    [] v.k = "frac" -> v.n < m
    [] v.k = "inf"  -> v.n < 0
    [] OTHER        -> FALSE

JSGt(v, m) ==
  CASE v.k = "int"  -> v.n > m
    [] v.k = "frac" -> v.n >= m
    [] v.k = "inf"  -> v.n > 0
    [] OTHER        -> FALSE

JSLe(v, m) ==
  CASE v.k = "int"  -> v.n <= m
    [] v.k = "frac" -> v.n < m
    [] v.k = "inf"  -> v.n < 0
    [] OTHER        -> FALSE

\* v === 0
JSEsCero(v) == v.ty = "number" /\ v.k = "int" /\ v.n = 0

\* String(v), as a template literal interpolates it.
JSToStr(v) ==
  CASE v.ty = "undefined" -> "undefined"
    [] v.ty = "null"      -> "null"
    [] v.ty = "string"    -> v.s
    [] v.ty = "boolean"   -> IF v.b THEN "true" ELSE "false"
    [] v.ty = "date"      -> "Date(" \o ToString(v.n) \o ")"
    [] v.ty = "object"    -> "[object Object]"
    [] v.k = "int"        -> ToString(v.n)
    [] v.k = "frac"       -> IF v.n >= 0 THEN ToString(v.n) \o ".5"
                             ELSE "-" \o ToString(-v.n - 1) \o ".5"
    [] v.k = "nan"        -> "NaN"
    [] OTHER              -> IF v.n > 0 THEN "Infinity" ELSE "-Infinity"

(***************************************************************************)
(* Strings.                                                                *)
(***************************************************************************)
Espacios == {" ", "\t", "\n"}

RECURSIVE TrimIzq(_)
TrimIzq(s) ==
  IF Len(s) = 0 THEN s
  ELSE IF Head(s) \in Espacios THEN TrimIzq(Tail(s)) ELSE s

RECURSIVE TrimDer(_)
TrimDer(s) ==
  IF Len(s) = 0 THEN s
  ELSE IF SubSeq(s, Len(s), Len(s)) \in Espacios
       THEN TrimDer(SubSeq(s, 1, Len(s) - 1)) ELSE s

\* s.trim()
Trim(s) == TrimDer(TrimIzq(s))

Mayusculas == "ABCDEFGHIJKLMNOPQRSTUVWXYZ"
Minusculas == "abcdefghijklmnopqrstuvwxyz"

\* LowerChar that leaves capital letters as they are
LowerChar_identidad(c) == c

LowerChar(c) ==
  IF \E i \in 1..Len(Mayusculas) : SubSeq(Mayusculas, i, i) = c
  THEN LET i == CHOOSE j \in 1..Len(Mayusculas) : SubSeq(Mayusculas, j, j) = c
       IN  SubSeq(Minusculas, i, i)
  ELSE c

\* s.toLowerCase()
RECURSIVE ToLowerCase(_)
ToLowerCase(s) ==
  IF Len(s) = 0 THEN s
  ELSE LowerChar(Head(s)) \o ToLowerCase(Tail(s))

\* s.includes(sub)
Contains(s, sub) ==
  \E i \in 1..(Len(s) - Len(sub) + 1) : SubSeq(s, i, i + Len(sub) - 1) = sub

\* s.startsWith(pre)
StartsWith(s, pre) == Len(s) >= Len(pre) /\ SubSeq(s, 1, Len(pre)) = pre

(***************************************************************************)
(* Records.  pres is "obj" for an object, "null" or "undefined" for an     *)
(* absent record; a field the object lacks reads as Undef.                 *)
(***************************************************************************)
\* valores: an array of values, or some value that is not an array
Arreglo(el)   == [esArr |-> TRUE, el |-> el, v |-> Undef]
NoArreglo(v)  == [esArr |-> FALSE, el |-> <<>>, v |-> v]

Operacion(id, valores, tipo, activa) ==
  [pres |-> "obj", id |-> id, valores |-> valores, tipo |-> tipo,
   activa |-> activa]

OperacionAusente(p) ==
  [pres |-> p, id |-> Undef, valores |-> NoArreglo(Undef), tipo |-> Undef,
   activa |-> Undef]

Solicitud(id, cliente, tipoServicio, prioridad, activo, fechaSolicitud) ==
  [pres |-> "obj", id |-> id, cliente |-> cliente,
   tipoServicio |-> tipoServicio, prioridad |-> prioridad, activo |-> activo,
   fechaSolicitud |-> fechaSolicitud]

SolicitudAusente(p) ==
  [pres |-> p, id |-> Undef, cliente |-> Undef, tipoServicio |-> Undef,
   prioridad |-> Undef, activo |-> Undef, fechaSolicitud |-> Undef]

Transaccion(id, usuario, monto, tipo, autorizada, fecha) ==
  [pres |-> "obj", id |-> id, usuario |-> usuario, monto |-> monto,
   tipo |-> tipo, autorizada |-> autorizada, fecha |-> fecha]

TransaccionAusente(p) ==
  [pres |-> p, id |-> Undef, usuario |-> Undef, monto |-> Undef,
   tipo |-> Undef, autorizada |-> Undef, fecha |-> Undef]

\* r?.id ?? "desconocido"
IdODesconocido(r) ==
  IF r.pres # "obj" \/ r.id.ty \in {"undefined", "null"}
  THEN Str("desconocido") ELSE r.id

\* { id, estado, motivo } of operaciones and solicitudes
Resultado(id, estado, motivo) == [id |-> id, estado |-> estado, motivo |-> motivo]

\* { id, clasificacion, motivo, [tipo, monto] } of transacciones
ResultadoTx(id, clasificacion, motivo, tipo, monto) ==
  [id |-> id, clasificacion |-> clasificacion, motivo |-> motivo,
   tipo |-> tipo, monto |-> monto]

\* the outcome of a call that either returns or throws new Error(msg)
Retorna     == [lanza |-> FALSE, msg |-> ""]
Lanza(msg)  == [lanza |-> TRUE, msg |-> msg]

(***************************************************************************)
(* Operaciones (ejercicio 2).                                              *)
(***************************************************************************)
\* op.valores.every(v => typeof v === "number")
TodosNumericos(el) == \A i \in 1..Len(el) : typeof(el[i]) = "number"

\* validarOperacion without rule 4 (empty array)
validarOperacion_sinRegla4(op) ==
  IF op.pres # "obj"
    THEN Lanza("La operacion se encuentra vacia o indefinida.")
  ELSE IF typeof(op.id) # "string" /\ typeof(op.id) # "number"
    THEN Lanza("Operacion invalida: el id \"" \o JSToStr(op.id)
               \o "\" no es valido (debe ser string o number).")
  ELSE IF ~op.valores.esArr
    THEN Lanza("Operacion " \o JSToStr(op.id)
               \o ": 'valores' debe ser un arreglo.")
  ELSE IF ~TodosNumericos(op.valores.el)
    THEN Lanza("Operacion " \o JSToStr(op.id)
               \o ": todos los valores deben ser numericos.")
  ELSE IF typeof(op.tipo) # "string"
    THEN Lanza("Operacion " \o JSToStr(op.id)
               \o ": el tipo debe ser un string.")
  ELSE IF typeof(op.activa) # "boolean"
    THEN Lanza("Operacion " \o JSToStr(op.id)
               \o ": el campo 'activa' debe ser booleano.")
  ELSE Retorna

\* validarOperacion(op): returns, or throws the Error of the first rule
\* that fails.
validarOperacion(op) ==
  IF op.pres # "obj"
    THEN Lanza("La operacion se encuentra vacia o indefinida.")
  ELSE IF typeof(op.id) # "string" /\ typeof(op.id) # "number"
    THEN Lanza("Operacion invalida: el id \"" \o JSToStr(op.id)
               \o "\" no es valido (debe ser string o number).")
  ELSE IF ~op.valores.esArr
    THEN Lanza("Operacion " \o JSToStr(op.id)
               \o ": 'valores' debe ser un arreglo.")
  ELSE IF Len(op.valores.el) = 0
    THEN Lanza("Operacion " \o JSToStr(op.id)
               \o ": el arreglo de valores esta vacio.")
  ELSE IF ~TodosNumericos(op.valores.el)
    THEN Lanza("Operacion " \o JSToStr(op.id)
               \o ": todos los valores deben ser numericos.")
  ELSE IF typeof(op.tipo) # "string"
    THEN Lanza("Operacion " \o JSToStr(op.id)
               \o ": el tipo debe ser un string.")
  ELSE IF typeof(op.activa) # "boolean"
    THEN Lanza("Operacion " \o JSToStr(op.id)
               \o ": el campo 'activa' debe ser booleano.")
  ELSE Retorna

\* total + elemento and total * elemento on numbers; the arrays of the
\* model hold integers and NaN, and NaN is absorbing.
JSSuma(a, b) == IF a.k = "int" /\ b.k = "int" THEN Num(a.n + b.n) ELSE NaN
JSProd(a, b) == IF a.k = "int" /\ b.k = "int" THEN Num(a.n * b.n) ELSE NaN

\* el.reduce((total, elemento) => total + elemento, inicial), left to right
RECURSIVE ReduceSuma(_, _)
ReduceSuma(el, total) ==
  IF Len(el) = 0 THEN total ELSE ReduceSuma(Tail(el), JSSuma(total, Head(el)))

RECURSIVE ReduceProd(_, _)
ReduceProd(el, total) ==
  IF Len(el) = 0 THEN total ELSE ReduceProd(Tail(el), JSProd(total, Head(el)))

\* calcularResultado with the sum started at 1
calcularResultado_sumaDesde1(op) ==
  IF op.tipo = Str("suma")
    THEN [lanza |-> FALSE, msg |-> "", val |-> ReduceSuma(op.valores.el, Num(1))]
  ELSE IF op.tipo = Str("multiplicacion")
    THEN [lanza |-> FALSE, msg |-> "", val |-> ReduceProd(op.valores.el, Num(1))]
  ELSE [lanza |-> TRUE,
        msg |-> "Tipo de operacion no reconocido: " \o JSToStr(op.tipo),
        val |-> Undef]

\* calcularResultado(op): [lanza, msg, val]
calcularResultado(op) ==
  IF op.tipo = Str("suma")
    THEN [lanza |-> FALSE, msg |-> "", val |-> ReduceSuma(op.valores.el, Num(0))]
  ELSE IF op.tipo = Str("multiplicacion")
    THEN [lanza |-> FALSE, msg |-> "", val |-> ReduceProd(op.valores.el, Num(1))]
  ELSE [lanza |-> TRUE,
        msg |-> "Tipo de operacion no reconocido: " \o JSToStr(op.tipo),
        val |-> Undef]

\* a catch block that throws the error on: the outcome is no Result
procesarOperacion_catch_relanza(op, msg) == Resultado(Undef, "(lanza)", msg)

\* the catch block of procesarOperacion
procesarOperacion_catch(op, msg) ==
  Resultado(IdODesconocido(op), "rechazada", "Error: " \o msg)

\* procesarOperacion(op) up to its await: either the function has returned
\* (fin, with res) or it is suspended in delay(tiempoAleatorio()).
procesarOperacion_inicio(op) ==
  LET v == validarOperacion(op) IN
  IF v.lanza
    THEN [fin |-> TRUE, res |-> procesarOperacion_catch(op, v.msg)]
  ELSE IF ~op.activa.b
    THEN [fin |-> TRUE,
          res |-> Resultado(op.id, "rechazada", "La operacion esta desactivada.")]
  ELSE [fin |-> FALSE, res |-> Resultado(Undef, "", "")]

\* procesarOperacion_reanuda that also rejects a result of 0
procesarOperacion_reanuda_ceroRechazado(op) ==
  LET c == calcularResultado(op) IN
  IF c.lanza THEN procesarOperacion_catch(op, c.msg)
  ELSE IF JSLe(c.val, 0)
    THEN Resultado(op.id, "rechazada",
                   "El resultado (" \o JSToStr(c.val) \o ") es negativo.")
  ELSE Resultado(op.id, "aprobada",
                 "Operacion realizada correctamente. Resultado = "
                 \o JSToStr(c.val))

\* procesarOperacion(op) from the end of the delay to its return
procesarOperacion_reanuda(op) ==
  LET c == calcularResultado(op) IN
  IF c.lanza THEN procesarOperacion_catch(op, c.msg)
  ELSE IF JSLt(c.val, 0)
    THEN Resultado(op.id, "rechazada",
                   "El resultado (" \o JSToStr(c.val) \o ") es negativo.")
  ELSE Resultado(op.id, "aprobada",
                 "Operacion realizada correctamente. Resultado = "
                 \o JSToStr(c.val))

\* arrObjeto()
arrObjeto ==
  << Operacion(Num(1), Arreglo(<<Num(10), Num(20), Num(30)>>), Str("suma"), Bool(TRUE)),
     Operacion(Num(2), Arreglo(<<Num(2), Num(3), Num(4)>>), Str("multiplicacion"), Bool(TRUE)),
     Operacion(Num(3), Arreglo(<<>>), Str("suma"), Bool(TRUE)),
     Operacion(Num(4), Arreglo(<<Num(5), Str("x"), Num(7)>>), Str("suma"), Bool(TRUE)),
     Operacion(Num(5), Arreglo(<<Num(10), Num(-50)>>), Str("suma"), Bool(TRUE)),
     Operacion(Num(6), Arreglo(<<Num(1), Num(2), Num(3)>>), Str("division"), Bool(TRUE)),
     Operacion(Num(7), Arreglo(<<Num(9), Num(9)>>), Str("suma"), Bool(FALSE)) >>

(***************************************************************************)
(* Callbacks.  A validator is handed a callback cb: "resuelve" is the      *)
(* orchestrators' (err, res) => resolve(res), which returns; "lanza" is a  *)
(* callback that throws when it is invoked.  A validator call yields the   *)
(* invocations it made of cb, in order, and whether it threw to its        *)
(* caller.                                                                 *)
(***************************************************************************)
Callbacks == {"resuelve", "lanza"}

MsgCallback == "callback"

\* one invocation callback(err, arg)
Llamada(err, arg) == [err |-> err, arg |-> arg]

\* the argument is the input record itself, or a newly built result
ArgRegistro(reg, resNulo)  == [clase |-> "registro", reg |-> reg, res |-> resNulo]
ArgResultado(regNulo, res) == [clase |-> "resultado", reg |-> regNulo, res |-> res]

\* return callback(null, res) inside the catch block: nothing encloses it
EnCatch(cb, previas, arg) ==
  [llamadas |-> previas \o <<Llamada("null", arg)>>,
   lanza    |-> cb = "lanza",
   msg      |-> IF cb = "lanza" THEN MsgCallback ELSE ""]

\* return callback(null, arg) inside the try block: what the callback throws
\* lands in the catch block, which calls back with enCatch, the rejection
\* built from err.message
EnTry(cb, arg, enCatch) ==
  IF cb = "lanza"
  THEN EnCatch(cb, <<Llamada("null", arg)>>, enCatch)
  ELSE [llamadas |-> <<Llamada("null", arg)>>, lanza |-> FALSE, msg |-> ""]

\* the function returns without having invoked the callback
SinLlamada == [llamadas |-> <<>>, lanza |-> FALSE, msg |-> ""]

(***************************************************************************)
(* Solicitudes (ejercicio 3).                                              *)
(***************************************************************************)
ResultadoNulo == Resultado(Undef, "", "")

\* ChequeosSolicitud without check 4) of tipoServicio
ChequeosSolicitud_sinTipoServicio(solicitud) ==
  IF solicitud.pres # "obj"
    THEN Lanza("La solicitud se encuentra vacia o indefinida.")
  ELSE IF typeof(solicitud.id) # "number"
    THEN Lanza("Solicitud invalida: id \"" \o JSToStr(solicitud.id)
               \o "\" no es numerico.")
  ELSE IF typeof(solicitud.cliente) # "string"
          \/ Len(Trim(solicitud.cliente.s)) = 0
    THEN Lanza("Solicitud " \o JSToStr(solicitud.id)
               \o ": el cliente debe ser un string y no debe estar vacio.")
  ELSE IF typeof(solicitud.prioridad) # "number"
          \/ JSLt(solicitud.prioridad, 1) \/ JSGt(solicitud.prioridad, 5)
    THEN Lanza("Solicitud " \o JSToStr(solicitud.id)
               \o ": la prioridad debe ser un numero entre 1 y 5.")
  ELSE IF typeof(solicitud.activo) # "boolean"
    THEN Lanza("Solicitud " \o JSToStr(solicitud.id)
               \o ": el campo 'activo' debe ser booleano.")
  ELSE IF ~(typeof(solicitud.fechaSolicitud) = "string"
            \/ solicitud.fechaSolicitud.ty = "date")
    THEN Lanza("Solicitud " \o JSToStr(solicitud.id)
               \o ": la fecha debe ser string o Date.")
  ELSE Retorna

\* the checks 1) to 7) of validarSolicitudConCallback: the Error thrown by
\* the first one that fails
ChequeosSolicitud(solicitud) ==
  IF solicitud.pres # "obj"
    THEN Lanza("La solicitud se encuentra vacia o indefinida.")
  ELSE IF typeof(solicitud.id) # "number"
    THEN Lanza("Solicitud invalida: id \"" \o JSToStr(solicitud.id)
               \o "\" no es numerico.")
  ELSE IF typeof(solicitud.cliente) # "string"
          \/ Len(Trim(solicitud.cliente.s)) = 0
    THEN Lanza("Solicitud " \o JSToStr(solicitud.id)
               \o ": el cliente debe ser un string y no debe estar vacio.")
  ELSE IF typeof(solicitud.tipoServicio) # "string"
    THEN Lanza("Solicitud " \o JSToStr(solicitud.id)
               \o ": el tipo de servicio debe ser un string.")
  ELSE IF typeof(solicitud.prioridad) # "number"
          \/ JSLt(solicitud.prioridad, 1) \/ JSGt(solicitud.prioridad, 5)
    THEN Lanza("Solicitud " \o JSToStr(solicitud.id)
               \o ": la prioridad debe ser un numero entre 1 y 5.")
  ELSE IF typeof(solicitud.activo) # "boolean"
    THEN Lanza("Solicitud " \o JSToStr(solicitud.id)
               \o ": el campo 'activo' debe ser booleano.")
  ELSE IF ~(typeof(solicitud.fechaSolicitud) = "string"
            \/ solicitud.fechaSolicitud.ty = "date")
    THEN Lanza("Solicitud " \o JSToStr(solicitud.id)
               \o ": la fecha debe ser string o Date.")
  ELSE Retorna

\* validarSolicitudConCallback without its try/catch: the Error of a failed
\* check leaves the function
validarSolicitudConCallback_sinCatch(solicitud, cb) ==
  LET nulo == SolicitudAusente("undefined")
      porError(m) ==
        ArgResultado(nulo, Resultado(IdODesconocido(solicitud), "rechazada",
                                     "Error: " \o m))
      f == ChequeosSolicitud(solicitud)
  IN  IF f.lanza THEN [llamadas |-> <<>>, lanza |-> TRUE, msg |-> f.msg]
      ELSE IF ~solicitud.activo.b
        THEN EnTry(cb, ArgResultado(nulo,
                         Resultado(solicitud.id, "rechazada",
                                   "La solicitud esta inactiva.")),
                   porError(MsgCallback))
      ELSE EnTry(cb, ArgRegistro(solicitud, ResultadoNulo), porError(MsgCallback))

\* validarSolicitudConCallback(solicitud, callback)
validarSolicitudConCallback(solicitud, cb) ==
  LET nulo == SolicitudAusente("undefined")
      porError(m) ==
        ArgResultado(nulo, Resultado(IdODesconocido(solicitud), "rechazada",
                                     "Error: " \o m))
      f == ChequeosSolicitud(solicitud)
  IN  IF f.lanza THEN EnCatch(cb, <<>>, porError(f.msg))
      ELSE IF ~solicitud.activo.b
        THEN EnTry(cb, ArgResultado(nulo,
                         Resultado(solicitud.id, "rechazada",
                                   "La solicitud esta inactiva.")),
                   porError(MsgCallback))
      ELSE EnTry(cb, ArgRegistro(solicitud, ResultadoNulo), porError(MsgCallback))

\* the TypeError of reading property prop of null or undefined
TypeErrorLeer(de, prop) ==
  "Cannot read properties of " \o de \o " (reading '" \o prop \o "')"

TiposServicio == {"instalacion", "mantenimiento", "soporte"}

\* procesarSolicitudConPromesa with a third outcome for an unknown kind
procesarSolicitudConPromesa_pendiente(solicitud) ==
  LET porError(m) ==
        Resultado(IdODesconocido(solicitud), "rechazada", "Error: " \o m)
      t == solicitud.tipoServicio
  IN  IF solicitud.pres # "obj"
        THEN porError(TypeErrorLeer(solicitud.pres, "tipoServicio"))
      ELSE IF t.ty \in {"undefined", "null"}
        THEN porError(TypeErrorLeer(t.ty, "toLowerCase"))
      ELSE IF t.ty # "string"
        THEN porError("solicitud.tipoServicio.toLowerCase is not a function")
      ELSE IF ToLowerCase(t.s) \in TiposServicio
        THEN Resultado(solicitud.id, "aprobada",
                       "Solicitud de " \o t.s \o " aprobada para cliente "
                       \o JSToStr(solicitud.cliente) \o ".")
      ELSE Resultado(solicitud.id, "pendiente",
                     "Tipo de servicio no reconocido: " \o t.s)

\* procesarSolicitudConPromesa(solicitud), from the end of its delay to the
\* value its promise resolves with
procesarSolicitudConPromesa(solicitud) ==
  LET porError(m) ==
        Resultado(IdODesconocido(solicitud), "rechazada", "Error: " \o m)
      t == solicitud.tipoServicio
  IN  IF solicitud.pres # "obj"
        THEN porError(TypeErrorLeer(solicitud.pres, "tipoServicio"))
      ELSE IF t.ty \in {"undefined", "null"}
        THEN porError(TypeErrorLeer(t.ty, "toLowerCase"))
      ELSE IF t.ty # "string"
        THEN porError("solicitud.tipoServicio.toLowerCase is not a function")
      ELSE IF ToLowerCase(t.s) \in TiposServicio
        THEN Resultado(solicitud.id, "aprobada",
                       "Solicitud de " \o t.s \o " aprobada para cliente "
                       \o JSToStr(solicitud.cliente) \o ".")
      ELSE Resultado(solicitud.id, "rechazada",
                     "Tipo de servicio no reconocido: " \o t.s)

\* arrSolicitudes(); hoy is the instant new Date() reads
arrSolicitudes(hoy) ==
  << Solicitud(Num(1), Str("Carlos"), Str("instalacion"), Num(3), Bool(TRUE), Str("2025-12-01")),
     Solicitud(Num(2), Str("Ana"), Str("mantenimiento"), Num(5), Bool(TRUE), Date(hoy)),
     Solicitud(Num(3), Str(""), Str("soporte"), Num(2), Bool(TRUE), Str("2025-12-02")),
     Solicitud(Num(4), Str("Luis"), Str("auditoria"), Num(4), Bool(TRUE), Str("2025-12-03")),
     Solicitud(Num(5), Str("Marta"), Str("soporte"), Num(7), Bool(TRUE), Str("2025-12-04")),
     Solicitud(Num(6), Str("Pedro"), Str("instalacion"), Num(1), Bool(FALSE), Str("2025-12-05")) >>

(***************************************************************************)
(* Transacciones (ejercicio 1).                                            *)
(***************************************************************************)
ResultadoTxNulo == ResultadoTx(Undef, "", "", Undef, Undef)

\* ChequeosTransaccion with the check of monto ahead of that of usuario
ChequeosTransaccion_montoAntes(transaccion) ==
  IF transaccion.pres # "obj"
    THEN Lanza("La transaccion esta vacia o indefinida.")
  ELSE IF typeof(transaccion.id) # "number"
          \/ ~NumberIsInteger(transaccion.id) \/ JSLe(transaccion.id, 0)
    THEN Lanza("Transaccion invalida: id \"" \o JSToStr(transaccion.id)
               \o "\" debe ser entero positivo.")
  ELSE IF typeof(transaccion.monto) # "number"
          \/ ~NumberIsFinite(transaccion.monto) \/ JSEsCero(transaccion.monto)
    THEN Lanza("Transaccion " \o JSToStr(transaccion.id)
               \o ": el monto debe ser un numero finito distinto de 0.")
  ELSE IF typeof(transaccion.usuario) # "string"
          \/ Len(Trim(transaccion.usuario.s)) = 0
    THEN Lanza("Transaccion " \o JSToStr(transaccion.id)
               \o ": el usuario debe ser un string no vacio.")
  ELSE IF typeof(transaccion.tipo) # "string"
    THEN Lanza("Transaccion " \o JSToStr(transaccion.id)
               \o ": el tipo debe ser un string.")
  ELSE IF typeof(transaccion.autorizada) # "boolean"
    THEN Lanza("Transaccion " \o JSToStr(transaccion.id)
               \o ": el campo 'autorizada' debe ser booleano.")
  ELSE IF ~(typeof(transaccion.fecha) = "string"
            \/ transaccion.fecha.ty = "date")
    THEN Lanza("Transaccion " \o JSToStr(transaccion.id)
               \o ": la fecha debe ser string o Date.")
  ELSE Retorna

\* the checks 1) to 7) of validarTransaccionConCallback, the same in both
\* definitions of the function: the Error thrown by the first that fails
ChequeosTransaccion(transaccion) ==
  IF transaccion.pres # "obj"
    THEN Lanza("La transaccion esta vacia o indefinida.")
  ELSE IF typeof(transaccion.id) # "number"
          \/ ~NumberIsInteger(transaccion.id) \/ JSLe(transaccion.id, 0)
    THEN Lanza("Transaccion invalida: id \"" \o JSToStr(transaccion.id)
               \o "\" debe ser entero positivo.")
  ELSE IF typeof(transaccion.usuario) # "string"
          \/ Len(Trim(transaccion.usuario.s)) = 0
    THEN Lanza("Transaccion " \o JSToStr(transaccion.id)
               \o ": el usuario debe ser un string no vacio.")
  ELSE IF typeof(transaccion.monto) # "number"
          \/ ~NumberIsFinite(transaccion.monto) \/ JSEsCero(transaccion.monto)
    THEN Lanza("Transaccion " \o JSToStr(transaccion.id)
               \o ": el monto debe ser un numero finito distinto de 0.")
  ELSE IF typeof(transaccion.tipo) # "string"
    THEN Lanza("Transaccion " \o JSToStr(transaccion.id)
               \o ": el tipo debe ser un string.")
  ELSE IF typeof(transaccion.autorizada) # "boolean"
    THEN Lanza("Transaccion " \o JSToStr(transaccion.id)
               \o ": el campo 'autorizada' debe ser booleano.")
  ELSE IF ~(typeof(transaccion.fecha) = "string"
            \/ transaccion.fecha.ty = "date")
    THEN Lanza("Transaccion " \o JSToStr(transaccion.id)
               \o ": la fecha debe ser string o Date.")
  ELSE Retorna

\* Incoherencia without the rule for egreso
Incoherencia_soloIngreso(transaccion) ==
  LET tipoLower == ToLowerCase(JSToStr(transaccion.tipo)) IN
  IF tipoLower = "ingreso" /\ JSLe(transaccion.monto, 0)
    THEN "Ingreso con monto <= 0 es incoherente."
  ELSE ""

\* step 8): the coherence rule of both definitions; "" when it passes
Incoherencia(transaccion) ==
  LET tipoLower == ToLowerCase(JSToStr(transaccion.tipo)) IN
  IF tipoLower = "ingreso" /\ JSLe(transaccion.monto, 0)
    THEN "Ingreso con monto <= 0 es incoherente."
  ELSE IF tipoLower = "egreso" /\ JSLe(transaccion.monto, 0)
    THEN "Egreso con monto <= 0 es incoherente."
  ELSE ""

\* the first definition with the classifier's prefix on a failed check
validarTransaccionConCallback_1_prefijoProcesamiento(transaccion, cb) ==
  LET nulo == TransaccionAusente("undefined")
      porError(m) ==
        ArgResultado(nulo, ResultadoTx(IdODesconocido(transaccion), "invalida",
                                       "Error de procesamiento: " \o m,
                                       Undef, Undef))
      f == ChequeosTransaccion(transaccion)
  IN  IF f.lanza THEN EnCatch(cb, <<>>, porError(f.msg))
      ELSE IF Incoherencia(transaccion) # ""
        THEN EnTry(cb, ArgResultado(nulo,
                         ResultadoTx(transaccion.id, "invalida",
                                     Incoherencia(transaccion), Undef, Undef)),
                   porError(MsgCallback))
      ELSE EnTry(cb, ArgRegistro(transaccion, ResultadoTxNulo), porError(MsgCallback))

\* validarTransaccionConCallback(transaccion, callback), first definition
validarTransaccionConCallback_1(transaccion, cb) ==
  LET nulo == TransaccionAusente("undefined")
      porError(m) ==
        ArgResultado(nulo, ResultadoTx(IdODesconocido(transaccion), "invalida",
                                       "Error: " \o m, Undef, Undef))
      f == ChequeosTransaccion(transaccion)
  IN  IF f.lanza THEN EnCatch(cb, <<>>, porError(f.msg))
      ELSE IF Incoherencia(transaccion) # ""
        THEN EnTry(cb, ArgResultado(nulo,
                         ResultadoTx(transaccion.id, "invalida",
                                     Incoherencia(transaccion), Undef, Undef)),
                   porError(MsgCallback))
      ELSE EnTry(cb, ArgRegistro(transaccion, ResultadoTxNulo), porError(MsgCallback))

\* validarTransaccionConCallback(transaccion, callback), second definition:
\* step 9) is commented out, so a transaction that passes every check
\* falls off the end of the try block
validarTransaccionConCallback_2(transaccion, cb) ==
  LET nulo == TransaccionAusente("undefined")
      porError(m) ==
        ArgResultado(nulo, ResultadoTx(IdODesconocido(transaccion), "invalida",
                                       "Error: " \o m, Undef, Undef))
      f == ChequeosTransaccion(transaccion)
  IN  IF f.lanza THEN EnCatch(cb, <<>>, porError(f.msg))
      ELSE IF Incoherencia(transaccion) # ""
        THEN EnTry(cb, ArgResultado(nulo,
                         ResultadoTx(transaccion.id, "invalida",
                                     Incoherencia(transaccion), Undef, Undef)),
                   porError(MsgCallback))
      ELSE SinLlamada

\* the two declarations of the name in ejercicio1.js (both exported, lines 18
\* and 273): which one a build binds the name to depends on how the file is
\* loaded, so the model takes either; a loader that refuses the duplicate
\* runs nothing of this module and has no behaviour to model
Definiciones == {1, 2}

\* the function the name validarTransaccionConCallback is bound to
validarTransaccionConCallback(def, transaccion, cb) ==
  IF def = 1 THEN validarTransaccionConCallback_1(transaccion, cb)
  ELSE validarTransaccionConCallback_2(transaccion, cb)

\* procesarTransaccionConPromesa that takes a missing authorization as fatal
procesarTransaccionConPromesa_sinSospechosa(transaccion) ==
  IF transaccion.pres # "obj"
    THEN ResultadoTx(IdODesconocido(transaccion), "invalida",
                     "Error de procesamiento: "
                     \o TypeErrorLeer(transaccion.pres, "tipo"),
                     Undef, Undef)
  ELSE
    LET tipoLower == ToLowerCase(JSToStr(transaccion.tipo)) IN
    IF tipoLower # "ingreso" /\ tipoLower # "egreso"
      THEN ResultadoTx(transaccion.id, "invalida",
                       "Tipo no reconocido: " \o JSToStr(transaccion.tipo),
                       Undef, Undef)
    ELSE IF transaccion.autorizada = Bool(TRUE)
      THEN ResultadoTx(transaccion.id, "valida",
                       "Transaccion " \o tipoLower
                       \o " autorizada para usuario "
                       \o JSToStr(transaccion.usuario) \o ".",
                       Str(tipoLower), transaccion.monto)
    ELSE ResultadoTx(transaccion.id, "invalida",
                     "Transaccion " \o tipoLower
                     \o " NO autorizada para usuario "
                     \o JSToStr(transaccion.usuario) \o ".",
                     Undef, Undef)

\* procesarTransaccionConPromesa(transaccion), from the end of its delay to
\* the value its promise resolves with
procesarTransaccionConPromesa(transaccion) ==
  IF transaccion.pres # "obj"
    THEN ResultadoTx(IdODesconocido(transaccion), "invalida",
                     "Error de procesamiento: "
                     \o TypeErrorLeer(transaccion.pres, "tipo"),
                     Undef, Undef)
  ELSE
    LET tipoLower == ToLowerCase(JSToStr(transaccion.tipo)) IN
    IF tipoLower # "ingreso" /\ tipoLower # "egreso"
      THEN ResultadoTx(transaccion.id, "invalida",
                       "Tipo no reconocido: " \o JSToStr(transaccion.tipo),
                       Undef, Undef)
    ELSE IF transaccion.autorizada = Bool(TRUE)
      THEN ResultadoTx(transaccion.id, "valida",
                       "Transaccion " \o tipoLower
                       \o " autorizada para usuario "
                       \o JSToStr(transaccion.usuario) \o ".",
                       Str(tipoLower), transaccion.monto)
    ELSE ResultadoTx(transaccion.id, "sospechosa",
                     "Transaccion " \o tipoLower
                     \o " NO autorizada para usuario "
                     \o JSToStr(transaccion.usuario) \o ".",
                     Str(tipoLower), transaccion.monto)

\* arrTransacciones(); hoy is the instant new Date() reads
arrTransacciones(hoy) ==
  << Transaccion(Num(1), Str("Sebas"), Num(500), Str("ingreso"), Bool(TRUE), Str("2025-12-01")),
     Transaccion(Num(2), Str("Karol"), Num(300), Str("egreso"), Bool(TRUE), Date(hoy)),
     Transaccion(Num(3), Str("Juan"), Num(-200), Str("ingreso"), Bool(TRUE), Str("2025-12-02")),
     Transaccion(Num(4), Str("Nicolle"), Num(150), Str("egreso"), Bool(FALSE), Str("2025-12-03")),
     Transaccion(Num(5), Str(""), Num(100), Str("ingreso"), Bool(TRUE), Str("2025-12-04")),
     Transaccion(Num(6), Str("Santi"), Num(0), Str("egreso"), Bool(TRUE), Str("2025-12-05")),
     Transaccion(Num(7), Str("David"), Num(250), Str("transfer"), Bool(TRUE), Str("2025-12-06")) >>

\* tiempoAleatorio() when Math.random() returns r / RandDen
RandDen == 1701

\* tiempoAleatorio with max - min in place of max - min + 1
tiempoAleatorio_sinMasUno(r) == ((r * (2000 - 300)) \div RandDen) + 300

\* Math.floor(Math.random() * (max - min + 1)) + min
tiempoAleatorio(r) == ((r * (2000 - 300 + 1)) \div RandDen) + 300

(***************************************************************************)
(* State.                                                                  *)
(*                                                                         *)
(* def is the declaration the name validarTransaccionConCallback is bound  *)
(* to: ejercicio1.js declares the function twice.                          *)
(*                                                                         *)
(* The p-variables are one call of a validator or a classifier on an       *)
(* arbitrary record (specification SpecVal); the others are the menu loop  *)
(* and the run of an orchestrator over its sample array (Spec).            *)
(***************************************************************************)
VARIABLES
  def,        \* 1 or 2: the bound declaration of validarTransaccionConCallback
  pDom,       \* the kind of record the call is given
  pLlamada,   \* the function the call is of ("" before the call)
  pFase,      \* "inicio", "delay" (suspended in delay(...)), "fin"
  pOp,        \* the operation passed in
  pSol,       \* the request passed in
  pTx,        \* the transaction passed in
  pCb,        \* the callback passed in
  pVal,       \* what validarOperacion did: [lanza, msg]
  pRes,       \* the Resultado returned / resolved (operaciones, solicitudes)
  pResTx,     \* the result resolved (transacciones)
  pSal,       \* what validarSolicitudConCallback did: [llamadas, lanza, msg]
  pSalTx,     \* what validarTransaccionConCallback did
  pCalculos,  \* number of invocations of calcularResultado
  pMs         \* the delay drawn by tiempoAleatorio(), 0 before

pvars == <<pDom, pLlamada, pFase, pOp, pSol, pTx, pCb, pVal, pRes, pResTx, pSal,
           pSalTx, pCalculos, pMs>>

VARIABLES
  pc,             \* where the program is (see the actions)
  salir,          \* mainMenu's loop flag
  opcion,         \* const opcion: the trimmed selection of the last read
  hoy,            \* the instant new Date() read when the sample array was built
  i,              \* number of records of the array the for...of has finished
  resuelta,       \* whether the promise being awaited has been resolved
  validada,       \* solicitudes: the value the validation promise resolved with
  validadaTx,     \* transacciones: the same
  resultado,      \* the Resultado a classifier produced, before it is pushed
  procesada,      \* transacciones: the same
  resultados,     \* operaciones / solicitudes: const resultados
  resultadosTx,   \* transacciones: const resultados
  validas,        \* transacciones: const validas
  sospechosas,    \* transacciones: const sospechosas
  invalidas,      \* transacciones: const invalidas
  totalIngresos,  \* transacciones: let totalIngresos
  totalEgresos,   \* transacciones: let totalEgresos
  resumen,        \* the numbers the summary block printed
  consola,        \* the lines printed since the last selection was read
  traza,          \* the steps of the current run, in order
  corridas,       \* the finished runs: [ej, lineas, resumen, espera]
  iniciadas       \* number of runs started

ovars == <<pc, salir, opcion, hoy, i, resuelta, validada, validadaTx, resultado,
           procesada, resultados, resultadosTx, validas, sospechosas,
           invalidas, totalIngresos, totalEgresos, resumen, consola, traza,
           corridas, iniciadas>>

vars == <<def, pvars, ovars>>

(***************************************************************************)
(* Bounds and input sets of SpecVal.                                       *)
(***************************************************************************)
\* longest valores array passed in
MaxValores == 2

\* the values of Math.random() * RandDen that the model draws
RandMuestras == {0, RandDen - 1}

ElementosValores == {Num(-3), Num(3), NaN, Str("x")}

RECURSIVE ArreglosDe(_, _)
ArreglosDe(S, n) ==
  IF n = 0 THEN {<<>>}
  ELSE LET menores == ArreglosDe(S, n - 1) IN
       menores \cup {Append(a, e) : a \in {m \in menores : Len(m) = n - 1}, e \in S}

ValoresPosibles ==
  {NoArreglo(Undef), NoArreglo(Str("12"))}
    \cup {Arreglo(a) : a \in ArreglosDe(ElementosValores, MaxValores)}

OperacionesPosibles ==
  {OperacionAusente("null"), OperacionAusente("undefined")}
    \cup {Operacion(id, va, ti, ac) :
            id \in {Num(1), Str("op-1"), Undef, Bool(TRUE)},
            va \in ValoresPosibles,
            ti \in {Str("suma"), Str("multiplicacion"), Str("division"),
                    Str("Suma"), Undef, Num(1)},
            ac \in {Bool(TRUE), Bool(FALSE), Undef, Str("true")}}

SolicitudesPosibles ==
  {SolicitudAusente("null"), SolicitudAusente("undefined")}
    \cup {Solicitud(id, cl, ti, pr, ac, fe) :
            id \in {Num(1), NaN, Str("1"), Undef},
            cl \in {Str("Ana"), Str(""), Str("  "), Undef, Num(7)},
            ti \in {Str("soporte"), Str("Instalacion"), Str("auditoria"),
                    Undef, Num(2)},
            pr \in {Num(0), Num(1), Num(5), Num(6), Frac(5), NaN, Str("3"),
                    Undef},
            ac \in {Bool(TRUE), Bool(FALSE), Undef, Num(1)},
            fe \in {Str("2025-12-01"), Date(0), Undef, Num(20251201)}}

TransaccionesPosibles ==
  {TransaccionAusente("null"), TransaccionAusente("undefined")}
    \cup {Transaccion(id, us, mo, ti, au, fe) :
            id \in {Num(1), Num(0), Frac(1), Str("1"), Undef},
            us \in {Str("Sebas"), Str(""), Str(" "), Undef},
            mo \in {Num(500), Num(-200), Num(0), Frac(-1), Inf(1), Inf(-1),
                    NaN, Str("100"), Undef},
            ti \in {Str("ingreso"), Str("egreso"), Str("INGRESO"),
                    Str("transfer"), Undef, Num(1)},
            au \in {Bool(TRUE), Bool(FALSE), Undef},
            fe \in {Str("2025-12-01"), Date(0), Undef}}

SalidaNula == [llamadas |-> <<>>, lanza |-> FALSE, msg |-> ""]

PInicial ==
  /\ pDom = ""
  /\ pLlamada = ""
  /\ pFase = "inicio"
  /\ pCb = "resuelve"
  /\ pOp = OperacionAusente("undefined")
  /\ pSol = SolicitudAusente("undefined")
  /\ pTx = TransaccionAusente("undefined")
  /\ pVal = Retorna
  /\ pRes = ResultadoNulo
  /\ pResTx = ResultadoTxNulo
  /\ pSal = SalidaNula
  /\ pSalTx = SalidaNula
  /\ pCalculos = 0
  /\ pMs = 0

(***************************************************************************)
(* Bounds of Spec.                                                         *)
(***************************************************************************)
\* runs of an exercise that one session of the menu starts
MaxCorridas == 2

\* the instants new Date() may read
Instantes == {0, 1}

\* what the user may type at the prompt
Entradas == {"1", "2", "3", "4", " 1 ", "", "  ", "5", "x"}

ArgSolNulo == ArgResultado(SolicitudAusente("undefined"), ResultadoNulo)
ArgTxNulo  == ArgResultado(TransaccionAusente("undefined"), ResultadoTxNulo)

ResumenNulo ==
  [procesadas |-> 0, aprobadas |-> 0, rechazadas |-> 0, validas |-> 0,
   sospechosas |-> 0, invalidas |-> 0, totalIngresos |-> 0,
   totalEgresos |-> 0, balanceFinal |-> 0]

\* one step of a run: ev is "validar", "delay", "clasificar", "reporte" or
\* "resumen", idx the record's position in the array, ms the delay
Paso(ev, idx, ms) == [ev |-> ev, idx |-> idx, ms |-> ms]

\* opcion before the first read, and when the read itself failed
SinOpcion == "(sin valor)"

OInicial ==
  /\ pc = "menu"
  /\ salir = FALSE
  /\ opcion = SinOpcion
  /\ hoy = 0
  /\ i = 0
  /\ resuelta = FALSE
  /\ validada = ArgSolNulo
  /\ validadaTx = ArgTxNulo
  /\ resultado = ResultadoNulo
  /\ procesada = ResultadoTxNulo
  /\ resultados = <<>>
  /\ resultadosTx = <<>>
  /\ validas = <<>>
  /\ sospechosas = <<>>
  /\ invalidas = <<>>
  /\ totalIngresos = 0
  /\ totalEgresos = 0
  /\ resumen = ResumenNulo
  /\ consola = <<>>
  /\ traza = <<>>
  /\ corridas = <<>>
  /\ iniciadas = 0

\* the menu mainMenu prints at the top of each iteration
LineasMenu ==
  << "MENU PRINCIPAL",
     "Opcion 1. Procesar operaciones por lotes (Ejercicio 2)",
     "Opcion 2. Gestionar solicitudes de servicio (Ejercicio 3)",
     "Opcion 3. Analizar transacciones y control de riesgo (Ejercicio1)",
     "Opcion 4. Salir" >>

\* r => r.estado === e, counted
RECURSIVE Cuenta(_, _)
Cuenta(rs, e) ==
  IF Len(rs) = 0 THEN 0
  ELSE (IF Head(rs).estado = e THEN 1 ELSE 0) + Cuenta(Tail(rs), e)

\* the time a run has spent in delay(...)
RECURSIVE EsperaTotal(_)
EsperaTotal(tr) ==
  IF Len(tr) = 0 THEN 0 ELSE Head(tr).ms + EsperaTotal(Tail(tr))

\* the record of a finished run: the exercise, <<id, outcome, reason>> of
\* each result, the numbers of its summary and the time it waited
Corrida(ej, lineas, res, espera) ==
  [ej |-> ej, lineas |-> lineas, resumen |-> res, espera |-> espera]

\* <<id, outcome, reason>> of each result, as text
LineasDe(rs) ==
  [k \in 1..Len(rs) |-> <<JSToStr(rs[k].id), rs[k].estado, rs[k].motivo>>]

LineasDeTx(rs) ==
  [k \in 1..Len(rs) |-> <<JSToStr(rs[k].id), rs[k].clasificacion, rs[k].motivo>>]

(***************************************************************************)
(* SpecVal: one call of a validator or classifier on an arbitrary record.  *)
(***************************************************************************)
InitVal ==
  /\ def \in Definiciones
  /\ OInicial
  /\ pLlamada = ""
  /\ pFase = "inicio"
  /\ pCb = "resuelve"
  /\ \/ /\ pDom = "operaciones"
        /\ pOp \in OperacionesPosibles
        /\ pSol = SolicitudAusente("undefined")
        /\ pTx = TransaccionAusente("undefined")
     \/ /\ pDom = "solicitudes"
        /\ pOp = OperacionAusente("undefined")
        /\ pSol \in SolicitudesPosibles
        /\ pTx = TransaccionAusente("undefined")
     \/ /\ pDom = "transacciones"
        /\ pOp = OperacionAusente("undefined")
        /\ pSol = SolicitudAusente("undefined")
        /\ pTx \in TransaccionesPosibles
  /\ pVal = Retorna
  /\ pRes = ResultadoNulo
  /\ pResTx = ResultadoTxNulo
  /\ pSal = SalidaNula
  /\ pSalTx = SalidaNula
  /\ pCalculos = 0
  /\ pMs = 0

\* validarOperacion(pOp)
LlamarValidarOperacion ==
  /\ pFase = "inicio"
  /\ pDom = "operaciones"
  /\ pLlamada' = "validarOperacion"
  /\ pVal' = validarOperacion(pOp)
  /\ pFase' = "fin"
  /\ UNCHANGED <<def, ovars, pDom, pOp, pSol, pTx, pCb, pRes, pResTx, pSal, pSalTx,
                 pCalculos, pMs>>

\* procesarOperacion(pOp) up to its return or its await
LlamarProcesarOperacion ==
  /\ pFase = "inicio"
  /\ pDom = "operaciones"
  /\ pLlamada' = "procesarOperacion"
  /\ LET r == procesarOperacion_inicio(pOp) IN
       /\ pFase' = IF r.fin THEN "fin" ELSE "delay"
       /\ pRes' = r.res
  /\ UNCHANGED <<def, ovars, pDom, pOp, pSol, pTx, pCb, pVal, pResTx, pSal, pSalTx,
                 pCalculos, pMs>>

\* the timer of procesarOperacion's delay fires: calcularResultado is
\* invoked and the function returns
ReanudarProcesarOperacion ==
  /\ pFase = "delay"
  /\ pLlamada = "procesarOperacion"
  /\ \E r \in RandMuestras : pMs' = tiempoAleatorio(r)
  /\ pCalculos' = pCalculos + 1
  /\ pRes' = procesarOperacion_reanuda(pOp)
  /\ pFase' = "fin"
  /\ UNCHANGED <<def, ovars, pDom, pLlamada, pOp, pSol, pTx, pCb, pVal, pResTx,
                 pSal, pSalTx>>

\* validarSolicitudConCallback(pSol, cb) for a callback cb
LlamarValidarSolicitud ==
  /\ pFase = "inicio"
  /\ pDom = "solicitudes"
  /\ pLlamada' = "validarSolicitudConCallback"
  /\ \E cb \in Callbacks :
       /\ pCb' = cb
       /\ pSal' = validarSolicitudConCallback(pSol, cb)
  /\ pFase' = "fin"
  /\ UNCHANGED <<def, ovars, pDom, pOp, pSol, pTx, pVal, pRes, pResTx, pSalTx,
                 pCalculos, pMs>>

\* validarTransaccionConCallback(pTx, cb) for a callback cb
LlamarValidarTransaccion ==
  /\ pFase = "inicio"
  /\ pDom = "transacciones"
  /\ pLlamada' = "validarTransaccionConCallback"
  /\ \E cb \in Callbacks :
       /\ pCb' = cb
       /\ pSalTx' = validarTransaccionConCallback(def, pTx, cb)
  /\ pFase' = "fin"
  /\ UNCHANGED <<def, ovars, pDom, pOp, pSol, pTx, pVal, pRes, pResTx, pSal,
                 pCalculos, pMs>>

\* procesarSolicitudConPromesa(pSol): the executor suspends in its delay
LlamarProcesarSolicitud ==
  /\ pFase = "inicio"
  /\ pDom = "solicitudes"
  /\ pLlamada' = "procesarSolicitudConPromesa"
  /\ pFase' = "delay"
  /\ UNCHANGED <<def, ovars, pDom, pOp, pSol, pTx, pCb, pVal, pRes, pResTx, pSal,
                 pSalTx, pCalculos, pMs>>

\* ReanudarProcesarSolicitud writing the lower-cased tipoServicio back into
\* the request
ReanudarProcesarSolicitud_normalizaTipo ==
  /\ pFase = "delay"
  /\ pLlamada = "procesarSolicitudConPromesa"
  /\ \E r \in RandMuestras : pMs' = tiempoAleatorio(r)
  /\ pRes' = procesarSolicitudConPromesa(pSol)
  /\ pSol' = IF pSol.pres = "obj" /\ pSol.tipoServicio.ty = "string"
             THEN [pSol EXCEPT !.tipoServicio = Str(ToLowerCase(pSol.tipoServicio.s))]
             ELSE pSol
  /\ pFase' = "fin"
  /\ UNCHANGED <<def, ovars, pDom, pLlamada, pOp, pTx, pCb, pVal, pResTx,
                 pSal, pSalTx, pCalculos>>

\* ... the timer fires and the promise resolves
ReanudarProcesarSolicitud ==
  /\ pFase = "delay"
  /\ pLlamada = "procesarSolicitudConPromesa"
  /\ \E r \in RandMuestras : pMs' = tiempoAleatorio(r)
  /\ pRes' = procesarSolicitudConPromesa(pSol)
  /\ pFase' = "fin"
  /\ UNCHANGED <<def, ovars, pDom, pLlamada, pOp, pSol, pTx, pCb, pVal, pResTx,
                 pSal, pSalTx, pCalculos>>

\* procesarTransaccionConPromesa(pTx): the executor suspends in its delay
LlamarProcesarTransaccion ==
  /\ pFase = "inicio"
  /\ pDom = "transacciones"
  /\ pLlamada' = "procesarTransaccionConPromesa"
  /\ pFase' = "delay"
  /\ UNCHANGED <<def, ovars, pDom, pOp, pSol, pTx, pCb, pVal, pRes, pResTx, pSal,
                 pSalTx, pCalculos, pMs>>

\* ... the timer fires and the promise resolves
ReanudarProcesarTransaccion ==
  /\ pFase = "delay"
  /\ pLlamada = "procesarTransaccionConPromesa"
  /\ \E r \in RandMuestras : pMs' = tiempoAleatorio(r)
  /\ pResTx' = procesarTransaccionConPromesa(pTx)
  /\ pFase' = "fin"
  /\ UNCHANGED <<def, ovars, pDom, pLlamada, pOp, pSol, pTx, pCb, pVal, pRes, pSal,
                 pSalTx, pCalculos>>

NextVal ==
  \/ LlamarValidarOperacion
  \/ LlamarProcesarOperacion
  \/ ReanudarProcesarOperacion
  \/ LlamarValidarSolicitud
  \/ LlamarValidarTransaccion
  \/ LlamarProcesarSolicitud
  \/ ReanudarProcesarSolicitud
  \/ LlamarProcesarTransaccion
  \/ ReanudarProcesarTransaccion

SpecVal == InitVal /\ [][NextVal]_vars

(***************************************************************************)
(* SpecTiempo: one call of tiempoAleatorio() for each value Math.random()  *)
(* may return, r / RandDen for r in 0 .. RandDen - 1.                      *)
(***************************************************************************)
Aleatorios == 0..(RandDen - 1)

InitTiempo ==
  /\ def \in Definiciones
  /\ OInicial
  /\ pDom = "tiempo"
  /\ pLlamada = ""
  /\ pFase = "inicio"
  /\ pCb = "resuelve"
  /\ pOp = OperacionAusente("undefined")
  /\ pSol = SolicitudAusente("undefined")
  /\ pTx = TransaccionAusente("undefined")
  /\ pVal = Retorna
  /\ pRes = ResultadoNulo
  /\ pResTx = ResultadoTxNulo
  /\ pSal = SalidaNula
  /\ pSalTx = SalidaNula
  /\ pCalculos = 0
  /\ pMs = 0

\* tiempoAleatorio()
LlamarTiempoAleatorio ==
  /\ pFase = "inicio"
  /\ pDom = "tiempo"
  /\ pLlamada' = "tiempoAleatorio"
  /\ \E r \in Aleatorios : pMs' = tiempoAleatorio(r)
  /\ pFase' = "fin"
  /\ UNCHANGED <<def, ovars, pDom, pOp, pSol, pTx, pCb, pVal, pRes, pResTx, pSal,
                 pSalTx, pCalculos>>

NextTiempo == LlamarTiempoAleatorio

SpecTiempo == InitTiempo /\ [][NextTiempo]_vars

(***************************************************************************)
(* Spec: mainMenu (app.js) and the three orchestrators over their sample   *)
(* arrays.                                                                 *)
(*                                                                         *)
(* pc = "menu"       : mainMenu is at prompt(...), the menu printed        *)
(*      "fin"        : the while loop has ended                            *)
(*      "op_bucle"   : ejecutarOperaciones at the top of its for...of      *)
(*      "op_delay"   : procesarOperacion suspended in delay(...)           *)
(*      "op_retorno" : procesarOperacion has returned, the await pending   *)
(*      "sol_bucle", "sol_await" (awaiting the validation promise),        *)
(*      "sol_delay", "sol_resuelta" : ejecutarSolicitudes                  *)
(*      "tx_bucle", "tx_await", "tx_delay", "tx_resuelta" :                *)
(*      ejecutarAnalisis                                                   *)
(***************************************************************************)
Init ==
  /\ def \in Definiciones
  /\ PInicial
  /\ OInicial

\* opcion.length === 0: the warning, and the loop prints the menu again
SeleccionVacia ==
  /\ pc = "menu"
  /\ \E e \in Entradas :
       /\ Len(Trim(e)) = 0
       /\ opcion' = Trim(e)
       /\ consola' = <<"Entrada vacia. Por favor ingrese una opcion valida (1, 2 , 3 o 4).">>
                       \o LineasMenu
  /\ UNCHANGED <<def, pvars, pc, salir, hoy, i, resuelta, validada, validadaTx,
                 resultado, procesada, resultados, resultadosTx, validas,
                 sospechosas, invalidas, totalIngresos, totalEgresos, resumen,
                 traza, corridas, iniciadas>>

\* SeleccionInvalida that leaves the loop
SeleccionInvalida_sale ==
  /\ pc = "menu"
  /\ \E e \in Entradas :
       /\ Len(Trim(e)) # 0
       /\ Trim(e) \notin {"1", "2", "3", "4"}
       /\ opcion' = Trim(e)
       /\ consola' = <<"Opcion invalida. Por favor ingrese las opciones 1, 2, 3 o 4.">>
  /\ salir' = TRUE
  /\ pc' = "fin"
  /\ UNCHANGED <<def, pvars, hoy, i, resuelta, validada, validadaTx,
                 resultado, procesada, resultados, resultadosTx, validas,
                 sospechosas, invalidas, totalIngresos, totalEgresos, resumen,
                 traza, corridas, iniciadas>>

\* default: of the switch
SeleccionInvalida ==
  /\ pc = "menu"
  /\ \E e \in Entradas :
       /\ Len(Trim(e)) # 0
       /\ Trim(e) \notin {"1", "2", "3", "4"}
       /\ opcion' = Trim(e)
       /\ consola' = <<"Opcion invalida. Por favor ingrese las opciones 1, 2, 3 o 4.">>
                       \o LineasMenu
  /\ UNCHANGED <<def, pvars, pc, salir, hoy, i, resuelta, validada, validadaTx,
                 resultado, procesada, resultados, resultadosTx, validas,
                 sospechosas, invalidas, totalIngresos, totalEgresos, resumen,
                 traza, corridas, iniciadas>>

\* LecturaFallida without the try: the error ends mainMenu
LecturaFallida_termina ==
  /\ pc = "menu"
  /\ opcion' = SinOpcion
  /\ consola' = <<TypeErrorLeer("null", "trim")>>
  /\ pc' = "fin"
  /\ UNCHANGED <<def, pvars, salir, hoy, i, resuelta, validada, validadaTx,
                 resultado, procesada, resultados, resultadosTx, validas,
                 sospechosas, invalidas, totalIngresos, totalEgresos, resumen,
                 traza, corridas, iniciadas>>

\* prompt(...) hands back null (the read was interrupted): .trim() throws
\* inside the try, the catch block reports it and the loop prints the menu
\* again
LecturaFallida ==
  /\ pc = "menu"
  /\ opcion' = SinOpcion
  /\ consola' = <<"Error en el menu:  " \o TypeErrorLeer("null", "trim"),
                  "Intentalo nuevamente, estamos trabajando en ello.">>
                  \o LineasMenu
  /\ UNCHANGED <<def, pvars, pc, salir, hoy, i, resuelta, validada, validadaTx,
                 resultado, procesada, resultados, resultadosTx, validas,
                 sospechosas, invalidas, totalIngresos, totalEgresos, resumen,
                 traza, corridas, iniciadas>>

\* case '4' that says goodbye and goes on with the loop
ElegirSalir_sigue ==
  /\ pc = "menu"
  /\ \E e \in Entradas : Trim(e) = "4" /\ opcion' = Trim(e)
  /\ consola' = <<"Has elegido la opcion 3: Saliendo del sistema... Vuelva pronto!">>
                   \o LineasMenu
  /\ UNCHANGED <<def, pvars, pc, salir, hoy, i, resuelta, validada, validadaTx,
                 resultado, procesada, resultados, resultadosTx, validas,
                 sospechosas, invalidas, totalIngresos, totalEgresos, resumen,
                 traza, corridas, iniciadas>>

\* case '4'
ElegirSalir ==
  /\ pc = "menu"
  /\ \E e \in Entradas : Trim(e) = "4" /\ opcion' = Trim(e)
  /\ consola' = <<"Has elegido la opcion 3: Saliendo del sistema... Vuelva pronto!">>
  /\ salir' = TRUE
  /\ pc' = "fin"
  /\ UNCHANGED <<def, pvars, hoy, i, resuelta, validada, validadaTx,
                 resultado, procesada, resultados, resultadosTx, validas,
                 sospechosas, invalidas, totalIngresos, totalEgresos, resumen,
                 traza, corridas, iniciadas>>

(***************************************************************************)
(* ejecutarOperaciones                                                     *)
(***************************************************************************)
\* ElegirOperaciones with resultados kept from the run before
ElegirOperaciones_sinReinicio ==
  /\ pc = "menu"
  /\ iniciadas < MaxCorridas
  /\ \E e \in Entradas : Trim(e) = "1" /\ opcion' = Trim(e)
  /\ consola' = <<"Has elegido la opcion 1: Procesar operaciones por lotes.",
                  "Procesando operaciones (Ejercicio 2)">>
  /\ resultados' = resultados
  /\ i' = 0
  /\ traza' = <<>>
  /\ iniciadas' = iniciadas + 1
  /\ pc' = "op_bucle"
  /\ UNCHANGED <<def, pvars, salir, hoy, resuelta, validada, validadaTx,
                 resultado, procesada, resultadosTx, validas, sospechosas,
                 invalidas, totalIngresos, totalEgresos, resumen, corridas>>

\* case '1', and ejecutarOperaciones down to its for...of
ElegirOperaciones ==
  /\ pc = "menu"
  /\ iniciadas < MaxCorridas
  /\ \E e \in Entradas : Trim(e) = "1" /\ opcion' = Trim(e)
  /\ consola' = <<"Has elegido la opcion 1: Procesar operaciones por lotes.",
                  "Procesando operaciones (Ejercicio 2)">>
  /\ resultados' = <<>>
  /\ i' = 0
  /\ traza' = <<>>
  /\ iniciadas' = iniciadas + 1
  /\ pc' = "op_bucle"
  /\ UNCHANGED <<def, pvars, salir, hoy, resuelta, validada, validadaTx,
                 resultado, procesada, resultadosTx, validas, sospechosas,
                 invalidas, totalIngresos, totalEgresos, resumen, corridas>>

\* procesarOperacion(op) is called on the next operation and runs to its
\* return or to its await
OpProcesar ==
  /\ pc = "op_bucle"
  /\ i < Len(arrObjeto)
  /\ LET r == procesarOperacion_inicio(arrObjeto[i + 1]) IN
       /\ resultado' = r.res
       /\ pc' = IF r.fin THEN "op_retorno" ELSE "op_delay"
  /\ traza' = Append(traza, Paso("validar", i + 1, 0))
  /\ UNCHANGED <<def, pvars, opcion, salir, hoy, i, resuelta, validada, validadaTx,
                 procesada, resultados, resultadosTx, validas, sospechosas,
                 invalidas, totalIngresos, totalEgresos, resumen, consola,
                 corridas, iniciadas>>

\* the timer fires: procesarOperacion computes, decides and returns
OpDelay ==
  /\ pc = "op_delay"
  /\ \E r \in RandMuestras :
       traza' = traza \o <<Paso("delay", i + 1, tiempoAleatorio(r)),
                           Paso("clasificar", i + 1, 0)>>
  /\ resultado' = procesarOperacion_reanuda(arrObjeto[i + 1])
  /\ pc' = "op_retorno"
  /\ UNCHANGED <<def, pvars, opcion, salir, hoy, i, resuelta, validada, validadaTx,
                 procesada, resultados, resultadosTx, validas, sospechosas,
                 invalidas, totalIngresos, totalEgresos, resumen, consola,
                 corridas, iniciadas>>

\* OpReportar with the result put at the front of resultados
OpReportar_alFrente ==
  /\ pc = "op_retorno"
  /\ resultados' = <<resultado>> \o resultados
  /\ consola' = Append(consola,
                  "Operacion " \o JSToStr(resultado.id) \o ": "
                  \o resultado.estado \o " => " \o resultado.motivo)
  /\ traza' = Append(traza, Paso("reporte", i + 1, 0))
  /\ i' = i + 1
  /\ pc' = "op_bucle"
  /\ UNCHANGED <<def, pvars, opcion, salir, hoy, resuelta, validada, validadaTx,
                 resultado, procesada, resultadosTx, validas, sospechosas,
                 invalidas, totalIngresos, totalEgresos, resumen, corridas,
                 iniciadas>>

\* resultados.push(resultado); console.log(...)
OpReportar ==
  /\ pc = "op_retorno"
  /\ resultados' = Append(resultados, resultado)
  /\ consola' = Append(consola,
                  "Operacion " \o JSToStr(resultado.id) \o ": "
                  \o resultado.estado \o " => " \o resultado.motivo)
  /\ traza' = Append(traza, Paso("reporte", i + 1, 0))
  /\ i' = i + 1
  /\ pc' = "op_bucle"
  /\ UNCHANGED <<def, pvars, opcion, salir, hoy, resuelta, validada, validadaTx,
                 resultado, procesada, resultadosTx, validas, sospechosas,
                 invalidas, totalIngresos, totalEgresos, resumen, corridas,
                 iniciadas>>

\* the summary; ejecutarOperaciones returns and mainMenu prints its menu
OpResumen ==
  /\ pc = "op_bucle"
  /\ i = Len(arrObjeto)
  /\ LET aprobadas  == Cuenta(resultados, "aprobada")
         rechazadas == Cuenta(resultados, "rechazada")
         res == [ResumenNulo EXCEPT !.procesadas = Len(resultados),
                                    !.aprobadas = aprobadas,
                                    !.rechazadas = rechazadas]
     IN  /\ resumen' = res
         /\ consola' = consola
              \o <<"Resumen",
                   "Operaciones aprobadas: " \o ToString(aprobadas),
                   "Operaciones rechazadas: " \o ToString(rechazadas)>>
              \o LineasMenu
         /\ corridas' = Append(corridas,
                          Corrida("operaciones", LineasDe(resultados), res,
                                  EsperaTotal(traza)))
  /\ traza' = Append(traza, Paso("resumen", i, 0))
  /\ pc' = "menu"
  /\ UNCHANGED <<def, pvars, opcion, salir, hoy, i, resuelta, validada, validadaTx,
                 resultado, procesada, resultados, resultadosTx, validas,
                 sospechosas, invalidas, totalIngresos, totalEgresos,
                 iniciadas>>

(***************************************************************************)
(* ejecutarSolicitudes                                                     *)
(***************************************************************************)
\* case '2', and ejecutarSolicitudes down to its for...of
ElegirSolicitudes ==
  /\ pc = "menu"
  /\ iniciadas < MaxCorridas
  /\ \E e \in Entradas : Trim(e) = "2" /\ opcion' = Trim(e)
  /\ consola' = <<"Has elegido la opcion 2: Gestionar solicitudes de servicio.",
                  "Gestionando solicitudes de servicio (Ejercicio 3)">>
  /\ hoy' \in Instantes
  /\ resultados' = <<>>
  /\ i' = 0
  /\ traza' = <<>>
  /\ iniciadas' = iniciadas + 1
  /\ pc' = "sol_bucle"
  /\ UNCHANGED <<def, pvars, salir, resuelta, validada, validadaTx,
                 resultado, procesada, resultadosTx, validas, sospechosas,
                 invalidas, totalIngresos, totalEgresos, resumen, corridas>>

\* new Promise(resolve => validarSolicitudConCallback(solicitud,
\* (err, res) => resolve(res))): the promise is resolved by the first
\* invocation of the callback
SolValidar ==
  /\ pc = "sol_bucle"
  /\ i < Len(arrSolicitudes(hoy))
  /\ LET sal == validarSolicitudConCallback(arrSolicitudes(hoy)[i + 1], "resuelve")
     IN  /\ resuelta' = (Len(sal.llamadas) >= 1)
         /\ validada' = IF Len(sal.llamadas) >= 1
                        THEN sal.llamadas[1].arg ELSE ArgSolNulo
  /\ traza' = Append(traza, Paso("validar", i + 1, 0))
  /\ pc' = "sol_await"
  /\ UNCHANGED <<def, pvars, opcion, salir, hoy, i, validadaTx, resultado, procesada,
                 resultados, resultadosTx, validas, sospechosas, invalidas,
                 totalIngresos, totalEgresos, resumen, consola, corridas,
                 iniciadas>>

\* EstadoDe that never sees the rejection of the validation
EstadoDe_sinRechazo(arg) == "undefined"

\* validada.estado: a request record has no such property
EstadoDe(arg) == IF arg.clase = "resultado" THEN arg.res.estado ELSE "undefined"

\* the await resumes: a rejected validation is pushed and reported, any
\* other value goes to procesarSolicitudConPromesa, which starts its delay
SolContinuar ==
  /\ pc = "sol_await"
  /\ resuelta
  /\ IF EstadoDe(validada) = "rechazada"
     THEN /\ resultados' = Append(resultados, validada.res)
          /\ consola' = Append(consola,
                          "Solicitud " \o JSToStr(validada.res.id) \o ": "
                          \o validada.res.estado \o " => " \o validada.res.motivo)
          /\ traza' = Append(traza, Paso("reporte", i + 1, 0))
          /\ i' = i + 1
          /\ pc' = "sol_bucle"
     ELSE /\ pc' = "sol_delay"
          /\ UNCHANGED <<resultados, consola, traza, i>>
  /\ UNCHANGED <<def, pvars, opcion, salir, hoy, resuelta, validada, validadaTx,
                 resultado, procesada, resultadosTx, validas, sospechosas,
                 invalidas, totalIngresos, totalEgresos, resumen, corridas,
                 iniciadas>>

\* SolDelay with a promise that resolves at once, no timer in between
SolDelay_sinEspera ==
  /\ pc = "sol_delay"
  /\ traza' = Append(traza, Paso("clasificar", i + 1, 0))
  /\ resultado' = procesarSolicitudConPromesa(validada.reg)
  /\ pc' = "sol_resuelta"
  /\ UNCHANGED <<def, pvars, opcion, salir, hoy, i, resuelta, validada, validadaTx,
                 procesada, resultados, resultadosTx, validas, sospechosas,
                 invalidas, totalIngresos, totalEgresos, resumen, consola,
                 corridas, iniciadas>>

\* the timer fires and procesarSolicitudConPromesa resolves its promise
SolDelay ==
  /\ pc = "sol_delay"
  /\ \E r \in RandMuestras :
       traza' = traza \o <<Paso("delay", i + 1, tiempoAleatorio(r)),
                           Paso("clasificar", i + 1, 0)>>
  /\ resultado' = procesarSolicitudConPromesa(validada.reg)
  /\ pc' = "sol_resuelta"
  /\ UNCHANGED <<def, pvars, opcion, salir, hoy, i, resuelta, validada, validadaTx,
                 procesada, resultados, resultadosTx, validas, sospechosas,
                 invalidas, totalIngresos, totalEgresos, resumen, consola,
                 corridas, iniciadas>>

\* resultados.push(resultado); console.log(...)
SolReportar ==
  /\ pc = "sol_resuelta"
  /\ resultados' = Append(resultados, resultado)
  /\ consola' = Append(consola,
                  "Solicitud " \o JSToStr(resultado.id) \o ": "
                  \o resultado.estado \o " => " \o resultado.motivo)
  /\ traza' = Append(traza, Paso("reporte", i + 1, 0))
  /\ i' = i + 1
  /\ pc' = "sol_bucle"
  /\ UNCHANGED <<def, pvars, opcion, salir, hoy, resuelta, validada, validadaTx,
                 resultado, procesada, resultadosTx, validas, sospechosas,
                 invalidas, totalIngresos, totalEgresos, resumen, corridas,
                 iniciadas>>

\* SolResumen without the line of the rejected count
SolResumen_sinRechazadas ==
  /\ pc = "sol_bucle"
  /\ i = Len(arrSolicitudes(hoy))
  /\ LET aprobadas  == Cuenta(resultados, "aprobada")
         rechazadas == Cuenta(resultados, "rechazada")
         res == [ResumenNulo EXCEPT !.procesadas = Len(resultados),
                                    !.aprobadas = aprobadas,
                                    !.rechazadas = rechazadas]
     IN  /\ resumen' = res
         /\ consola' = consola
              \o <<"Resumen",
                   "Solicitudes procesadas: " \o ToString(Len(resultados)),
                   "Solicitudes aprobadas: " \o ToString(aprobadas)>>
              \o LineasMenu
         /\ corridas' = Append(corridas,
                          Corrida("solicitudes", LineasDe(resultados), res,
                                  EsperaTotal(traza)))
  /\ traza' = Append(traza, Paso("resumen", i, 0))
  /\ pc' = "menu"
  /\ UNCHANGED <<def, pvars, opcion, salir, hoy, i, resuelta, validada, validadaTx,
                 resultado, procesada, resultados, resultadosTx, validas,
                 sospechosas, invalidas, totalIngresos, totalEgresos,
                 iniciadas>>

\* the summary; ejecutarSolicitudes returns and mainMenu prints its menu
SolResumen ==
  /\ pc = "sol_bucle"
  /\ i = Len(arrSolicitudes(hoy))
  /\ LET aprobadas  == Cuenta(resultados, "aprobada")
         rechazadas == Cuenta(resultados, "rechazada")
         res == [ResumenNulo EXCEPT !.procesadas = Len(resultados),
                                    !.aprobadas = aprobadas,
                                    !.rechazadas = rechazadas]
     IN  /\ resumen' = res
         /\ consola' = consola
              \o <<"Resumen",
                   "Solicitudes procesadas: " \o ToString(Len(resultados)),
                   "Solicitudes aprobadas: " \o ToString(aprobadas),
                   "Solicitudes rechazadas: " \o ToString(rechazadas)>>
              \o LineasMenu
         /\ corridas' = Append(corridas,
                          Corrida("solicitudes", LineasDe(resultados), res,
                                  EsperaTotal(traza)))
  /\ traza' = Append(traza, Paso("resumen", i, 0))
  /\ pc' = "menu"
  /\ UNCHANGED <<def, pvars, opcion, salir, hoy, i, resuelta, validada, validadaTx,
                 resultado, procesada, resultados, resultadosTx, validas,
                 sospechosas, invalidas, totalIngresos, totalEgresos,
                 iniciadas>>

(***************************************************************************)
(* ejecutarAnalisis                                                        *)
(***************************************************************************)
\* case '3', and ejecutarAnalisis down to its for...of
ElegirAnalisis ==
  /\ pc = "menu"
  /\ iniciadas < MaxCorridas
  /\ \E e \in Entradas : Trim(e) = "3" /\ opcion' = Trim(e)
  /\ consola' = <<"Has elegido la opcion 3: Analizar transacciones y control de riesgo.",
                  "Sistema de Transacciones y Control de Riesgo">>
  /\ hoy' \in Instantes
  /\ resultadosTx' = <<>>
  /\ validas' = <<>>
  /\ sospechosas' = <<>>
  /\ invalidas' = <<>>
  /\ totalIngresos' = 0
  /\ totalEgresos' = 0
  /\ i' = 0
  /\ traza' = <<>>
  /\ iniciadas' = iniciadas + 1
  /\ pc' = "tx_bucle"
  /\ UNCHANGED <<def, pvars, salir, resuelta, validada, validadaTx,
                 resultado, procesada, resultados, resumen, corridas>>

\* TxValidar with a validator that stops after its check of fecha, the
\* coherence of monto and tipo left out
TxValidar_sinCoherencia ==
  /\ pc = "tx_bucle"
  /\ i < Len(arrTransacciones(hoy))
  /\ LET t == arrTransacciones(hoy)[i + 1]
         sal == IF ChequeosTransaccion(t).lanza
                THEN validarTransaccionConCallback(def, t, "resuelve")
                ELSE EnTry("resuelve", ArgRegistro(t, ResultadoTxNulo),
                           ArgTxNulo)
     IN  /\ resuelta' = (Len(sal.llamadas) >= 1)
         /\ validadaTx' = IF Len(sal.llamadas) >= 1
                          THEN sal.llamadas[1].arg ELSE ArgTxNulo
  /\ traza' = Append(traza, Paso("validar", i + 1, 0))
  /\ pc' = "tx_await"
  /\ UNCHANGED <<def, pvars, opcion, salir, hoy, i, validada, resultado, procesada,
                 resultados, resultadosTx, validas, sospechosas, invalidas,
                 totalIngresos, totalEgresos, resumen, consola, corridas,
                 iniciadas>>

\* new Promise(resolve => validarTransaccionConCallback(t,
\* (err, res) => resolve(res))): the promise is resolved by the first
\* invocation of the callback, and stays pending when there is none
TxValidar ==
  /\ pc = "tx_bucle"
  /\ i < Len(arrTransacciones(hoy))
  /\ LET sal == validarTransaccionConCallback(def, arrTransacciones(hoy)[i + 1],
                                              "resuelve")
     IN  /\ resuelta' = (Len(sal.llamadas) >= 1)
         /\ validadaTx' = IF Len(sal.llamadas) >= 1
                          THEN sal.llamadas[1].arg ELSE ArgTxNulo
  /\ traza' = Append(traza, Paso("validar", i + 1, 0))
  /\ pc' = "tx_await"
  /\ UNCHANGED <<def, pvars, opcion, salir, hoy, i, validada, resultado, procesada,
                 resultados, resultadosTx, validas, sospechosas, invalidas,
                 totalIngresos, totalEgresos, resumen, consola, corridas,
                 iniciadas>>

\* validada.clasificacion: a transaction record has no such property
ClasificacionDe(arg) ==
  IF arg.clase = "resultado" THEN arg.res.clasificacion ELSE "undefined"

\* the report line of a transaction
LineaTx(r) ==
  "Transaccion " \o JSToStr(r.id) \o ": " \o r.clasificacion \o " => "
  \o r.motivo

\* the await resumes: an invalida validation is pushed and reported, any
\* other value goes to procesarTransaccionConPromesa, which starts its delay
TxContinuar ==
  /\ pc = "tx_await"
  /\ resuelta
  /\ IF ClasificacionDe(validadaTx) = "invalida"
     THEN /\ invalidas' = Append(invalidas, validadaTx.res)
          /\ resultadosTx' = Append(resultadosTx, validadaTx.res)
          /\ consola' = Append(consola, LineaTx(validadaTx.res))
          /\ traza' = Append(traza, Paso("reporte", i + 1, 0))
          /\ i' = i + 1
          /\ pc' = "tx_bucle"
     ELSE /\ pc' = "tx_delay"
          /\ UNCHANGED <<invalidas, resultadosTx, consola, traza, i>>
  /\ UNCHANGED <<def, pvars, opcion, salir, hoy, resuelta, validada, validadaTx,
                 resultado, procesada, resultados, validas, sospechosas,
                 totalIngresos, totalEgresos, resumen, corridas, iniciadas>>

\* the timer fires and procesarTransaccionConPromesa resolves its promise
TxDelay ==
  /\ pc = "tx_delay"
  /\ \E r \in RandMuestras :
       traza' = traza \o <<Paso("delay", i + 1, tiempoAleatorio(r)),
                           Paso("clasificar", i + 1, 0)>>
  /\ procesada' = procesarTransaccionConPromesa(validadaTx.reg)
  /\ pc' = "tx_resuelta"
  /\ UNCHANGED <<def, pvars, opcion, salir, hoy, i, resuelta, validada, validadaTx,
                 resultado, resultados, resultadosTx, validas, sospechosas,
                 invalidas, totalIngresos, totalEgresos, resumen, consola,
                 corridas, iniciadas>>

\* TxReportar that also adds the amounts of suspicious transactions
TxReportar_sumaSospechosas ==
  /\ pc = "tx_resuelta"
  /\ resultadosTx' = Append(resultadosTx, procesada)
  /\ IF procesada.clasificacion = "valida"
     THEN /\ validas' = Append(validas, procesada)
          /\ totalIngresos' = IF procesada.tipo = Str("ingreso")
                              THEN totalIngresos + procesada.monto.n
                              ELSE totalIngresos
          /\ totalEgresos' = IF procesada.tipo # Str("ingreso")
                                /\ procesada.tipo = Str("egreso")
                             THEN totalEgresos + procesada.monto.n
                             ELSE totalEgresos
          /\ UNCHANGED <<sospechosas, invalidas>>
     ELSE IF procesada.clasificacion = "sospechosa"
     THEN /\ sospechosas' = Append(sospechosas, procesada)
          /\ totalIngresos' = IF procesada.tipo = Str("ingreso")
                              THEN totalIngresos + procesada.monto.n
                              ELSE totalIngresos
          /\ totalEgresos' = IF procesada.tipo = Str("egreso")
                             THEN totalEgresos + procesada.monto.n
                             ELSE totalEgresos
          /\ UNCHANGED <<validas, invalidas>>
     ELSE /\ invalidas' = Append(invalidas, procesada)
          /\ UNCHANGED <<validas, sospechosas, totalIngresos, totalEgresos>>
  /\ consola' = Append(consola, LineaTx(procesada))
  /\ traza' = Append(traza, Paso("reporte", i + 1, 0))
  /\ i' = i + 1
  /\ pc' = "tx_bucle"
  /\ UNCHANGED <<def, pvars, opcion, salir, hoy, resuelta, validada, validadaTx,
                 resultado, procesada, resultados, resumen, corridas,
                 iniciadas>>

\* resultados.push(procesada), the three lists, the totals and the report
TxReportar ==
  /\ pc = "tx_resuelta"
  /\ resultadosTx' = Append(resultadosTx, procesada)
  /\ IF procesada.clasificacion = "valida"
     THEN /\ validas' = Append(validas, procesada)
          /\ totalIngresos' = IF procesada.tipo = Str("ingreso")
                              THEN totalIngresos + procesada.monto.n
                              ELSE totalIngresos
          /\ totalEgresos' = IF procesada.tipo # Str("ingreso")
                                /\ procesada.tipo = Str("egreso")
                             THEN totalEgresos + procesada.monto.n
                             ELSE totalEgresos
          /\ UNCHANGED <<sospechosas, invalidas>>
     ELSE IF procesada.clasificacion = "sospechosa"
     THEN /\ sospechosas' = Append(sospechosas, procesada)
          /\ UNCHANGED <<validas, invalidas, totalIngresos, totalEgresos>>
     ELSE /\ invalidas' = Append(invalidas, procesada)
          /\ UNCHANGED <<validas, sospechosas, totalIngresos, totalEgresos>>
  /\ consola' = Append(consola, LineaTx(procesada))
  /\ traza' = Append(traza, Paso("reporte", i + 1, 0))
  /\ i' = i + 1
  /\ pc' = "tx_bucle"
  /\ UNCHANGED <<def, pvars, opcion, salir, hoy, resuelta, validada, validadaTx,
                 resultado, procesada, resultados, resumen, corridas,
                 iniciadas>>

\* console.log(arreglo): the objects of the array on one line
RECURSIVE Inspeccionar(_)
Inspeccionar(rs) ==
  IF Len(rs) = 0 THEN ""
  ELSE "{ id: " \o JSToStr(Head(rs).id)
       \o ", clasificacion: '" \o Head(rs).clasificacion
       \o "', motivo: '" \o Head(rs).motivo \o "' } "
       \o Inspeccionar(Tail(rs))

\* the summary, the listings and the totals; ejecutarAnalisis returns and
\* mainMenu prints its menu (the dash of the source's texts is written -)
TxResumen ==
  /\ pc = "tx_bucle"
  /\ i = Len(arrTransacciones(hoy))
  /\ LET balanceFinal == totalIngresos - totalEgresos
         res == [procesadas |-> Len(resultadosTx), aprobadas |-> 0,
                 rechazadas |-> 0, validas |-> Len(validas),
                 sospechosas |-> Len(sospechosas),
                 invalidas |-> Len(invalidas),
                 totalIngresos |-> totalIngresos,
                 totalEgresos |-> totalEgresos,
                 balanceFinal |-> balanceFinal]
     IN  /\ resumen' = res
         /\ consola' = consola
              \o <<"Resumen",
                   "Total procesadas (number): " \o ToString(Len(resultadosTx))
                     \o " - incluye validas, sospechosas e invalidas segun reglas aplicadas.",
                   "Validas (array): " \o ToString(Len(validas))
                     \o " - datos correctos y autorizadas.",
                   "Sospechosas (array): " \o ToString(Len(sospechosas))
                     \o " - datos correctos pero NO autorizadas.",
                   "Invalidas (array): " \o ToString(Len(invalidas))
                     \o " - errores de estructura o logica.",
                   "Listado de validas (array de objetos):",
                   "[ " \o Inspeccionar(validas) \o "]",
                   "Listado de sospechosas (array de objetos):",
                   "[ " \o Inspeccionar(sospechosas) \o "]",
                   "Listado de invalidas con motivo (array de objetos):",
                   "[ " \o Inspeccionar(invalidas) \o "]",
                   "Totales",
                   "Total de ingresos validos (number): " \o ToString(totalIngresos)
                     \o " - suma de montos de transacciones validas con tipo \"ingreso\".",
                   "Total de egresos validos (number): " \o ToString(totalEgresos)
                     \o " - suma de montos de transacciones validas con tipo \"egreso\".",
                   "Balance final (number): " \o ToString(balanceFinal)
                     \o " - ingresos validos menos egresos validos.">>
              \o LineasMenu
         /\ corridas' = Append(corridas,
                          Corrida("transacciones", LineasDeTx(resultadosTx), res,
                                  EsperaTotal(traza)))
  /\ traza' = Append(traza, Paso("resumen", i, 0))
  /\ pc' = "menu"
  /\ UNCHANGED <<def, pvars, opcion, salir, hoy, i, resuelta, validada, validadaTx,
                 resultado, procesada, resultados, resultadosTx, validas,
                 sospechosas, invalidas, totalIngresos, totalEgresos,
                 iniciadas>>

Next ==
  \/ SeleccionVacia
  \/ SeleccionInvalida
  \/ LecturaFallida
  \/ ElegirSalir
  \/ ElegirOperaciones
  \/ OpProcesar
  \/ OpDelay
  \/ OpReportar
  \/ OpResumen
  \/ ElegirSolicitudes
  \/ SolValidar
  \/ SolContinuar
  \/ SolDelay
  \/ SolReportar
  \/ SolResumen
  \/ ElegirAnalisis
  \/ TxValidar
  \/ TxContinuar
  \/ TxDelay
  \/ TxReportar
  \/ TxResumen

Spec == Init /\ [][Next]_vars

\* the event loop runs every timer and every continuation that is due, and
\* the user answers the prompt
FairSpec == Spec /\ WF_vars(Next)

\* mainMenu with a user who asks for nothing but option 2 (and may mistype,
\* fail the prompt or leave): the menu and ejecutarSolicitudes
NextSolicitudes ==
  \/ SeleccionVacia
  \/ SeleccionInvalida
  \/ LecturaFallida
  \/ ElegirSalir
  \/ ElegirSolicitudes
  \/ SolValidar
  \/ SolContinuar
  \/ SolDelay
  \/ SolReportar
  \/ SolResumen

SpecSolicitudes == Init /\ [][NextSolicitudes]_vars

FairSpecSolicitudes == SpecSolicitudes /\ WF_vars(NextSolicitudes)

(***************************************************************************)
(* What the data model asks of each field, stated on the values and not    *)
(* through the validators.                                                 *)
(***************************************************************************)
EsNumero(v)   == v.ty = "number"
EsTexto(v)    == v.ty = "string"
EsBooleano(v) == v.ty = "boolean"
EsFecha(v)    == v.ty \in {"string", "date"}

\* the required fields of an operation whose type is wrong or that are missing
MalTipadosOp(op) ==
  {c \in {"id", "valores", "tipo", "activa"} :
     \/ c = "id" /\ ~(EsTexto(op.id) \/ EsNumero(op.id))
     \/ c = "valores" /\ (~op.valores.esArr
                          \/ \E k \in 1..Len(op.valores.el) :
                               ~EsNumero(op.valores.el[k]))
     \/ c = "tipo" /\ ~EsTexto(op.tipo)
     \/ c = "activa" /\ ~EsBooleano(op.activa)}

MalTipadosSol(so) ==
  {c \in {"id", "cliente", "tipoServicio", "prioridad", "activo",
          "fechaSolicitud"} :
     \/ c = "id" /\ ~EsNumero(so.id)
     \/ c = "cliente" /\ ~EsTexto(so.cliente)
     \/ c = "tipoServicio" /\ ~EsTexto(so.tipoServicio)
     \/ c = "prioridad" /\ ~EsNumero(so.prioridad)
     \/ c = "activo" /\ ~EsBooleano(so.activo)
     \/ c = "fechaSolicitud" /\ ~EsFecha(so.fechaSolicitud)}

MalTipadosTx(tr) ==
  {c \in {"id", "usuario", "monto", "tipo", "autorizada", "fecha"} :
     \/ c = "id" /\ ~EsNumero(tr.id)
     \/ c = "usuario" /\ ~EsTexto(tr.usuario)
     \/ c = "monto" /\ ~EsNumero(tr.monto)
     \/ c = "tipo" /\ ~EsTexto(tr.tipo)
     \/ c = "autorizada" /\ ~EsBooleano(tr.autorizada)
     \/ c = "fecha" /\ ~EsFecha(tr.fecha)}

\* the required fields that are missing, wrong-typed or outside the
\* constraints of the data model
InfractoresOp(op) ==
  MalTipadosOp(op)
    \cup {c \in {"valores"} : op.valores.esArr /\ Len(op.valores.el) = 0}

InfractoresSol(so) ==
  MalTipadosSol(so)
    \cup {c \in {"cliente"} : EsTexto(so.cliente) /\ Trim(so.cliente.s) = ""}
    \cup {c \in {"prioridad"} :
            EsNumero(so.prioridad)
            /\ (JSLt(so.prioridad, 1) \/ JSGt(so.prioridad, 5))}

InfractoresTx(tr) ==
  MalTipadosTx(tr)
    \cup {c \in {"id"} : EsNumero(tr.id) /\ ~(tr.id.k = "int" /\ tr.id.n > 0)}
    \cup {c \in {"usuario"} : EsTexto(tr.usuario) /\ Trim(tr.usuario.s) = ""}
    \cup {c \in {"monto"} :
            EsNumero(tr.monto)
            /\ (tr.monto.k \notin {"int", "frac"} \/ tr.monto = Num(0))}

\* the words by which a reason refers to a field
NombreCampo(c) ==
  CASE c = "id"             -> {"el id \"", ": id \""}
    [] c = "valores"        -> {"'valores'", "los valores ", "de valores "}
    [] c = "tipo"           -> {"el tipo "}
    [] c = "activa"         -> {"'activa'"}
    [] c = "cliente"        -> {"el cliente "}
    [] c = "tipoServicio"   -> {"el tipo de servicio "}
    [] c = "prioridad"      -> {"la prioridad "}
    [] c = "activo"         -> {"'activo'"}
    [] c = "fechaSolicitud" -> {"la fecha "}
    [] c = "usuario"        -> {"el usuario "}
    [] c = "monto"          -> {"el monto "}
    [] c = "autorizada"     -> {"'autorizada'"}
    [] c = "fecha"          -> {"la fecha "}

\* the reason names one of the fields of campos
Nombra(motivo, campos) ==
  \E c \in campos : \E w \in NombreCampo(c) : Contains(motivo, w)

\* a record that meets every constraint of the data model and of the
\* coherence rules
EsValidaOp(op) ==
  /\ op.pres = "obj"
  /\ MalTipadosOp(op) = {}
  /\ Len(op.valores.el) > 0

EsValidaSol(so) ==
  /\ so.pres = "obj"
  /\ MalTipadosSol(so) = {}
  /\ Trim(so.cliente.s) # ""
  /\ ~JSLt(so.prioridad, 1) /\ ~JSGt(so.prioridad, 5)
  /\ so.activo.b

EsValidaTx(tr) ==
  /\ tr.pres = "obj"
  /\ MalTipadosTx(tr) = {}
  /\ tr.id.k = "int" /\ tr.id.n > 0
  /\ Trim(tr.usuario.s) # ""
  /\ tr.monto.k \in {"int", "frac"} /\ tr.monto # Num(0)
  /\ ~(ToLowerCase(tr.tipo.s) \in {"ingreso", "egreso"} /\ JSLe(tr.monto, 0))

\* the calls of the validators that have returned (or thrown)
HechaValidarOperacion   == pLlamada = "validarOperacion" /\ pFase = "fin"
HechaProcesarOperacion  == pLlamada = "procesarOperacion" /\ pFase = "fin"
HechaValidarSolicitud   == pLlamada = "validarSolicitudConCallback" /\ pFase = "fin"
HechaValidarTransaccion == pLlamada = "validarTransaccionConCallback" /\ pFase = "fin"

\* every invocation of the callback handed over a rejection, and there was one
SoloRechazos(sal, rechazo(_)) ==
  /\ Len(sal.llamadas) >= 1
  /\ \A k \in 1..Len(sal.llamadas) :
       /\ sal.llamadas[k].arg.clase = "resultado"
       /\ k = 1 => rechazo(sal.llamadas[k].arg.res)

(***************************************************************************)
(* C1: a record with a missing or wrong-typed required field comes out of  *)
(* its domain's validation as a rejection (rechazada / invalida) whose     *)
(* reason names an offending field of the record (the one whose check      *)
(* failed first), and the record is never passed on to classification.     *)
(***************************************************************************)
C1_RechazoNombraCampo ==
  /\ (pLlamada = "procesarOperacion" /\ pOp.pres = "obj"
        /\ MalTipadosOp(pOp) # {})
       => /\ pFase = "fin"
          /\ pCalculos = 0
          /\ pRes.estado = "rechazada"
          /\ Nombra(pRes.motivo, InfractoresOp(pOp))
  /\ (HechaValidarSolicitud /\ pSol.pres = "obj" /\ MalTipadosSol(pSol) # {})
       => SoloRechazos(pSal,
            LAMBDA r : r.estado = "rechazada"
                       /\ Nombra(r.motivo, InfractoresSol(pSol)))
  /\ (HechaValidarTransaccion /\ pTx.pres = "obj" /\ MalTipadosTx(pTx) # {})
       => SoloRechazos(pSalTx,
            LAMBDA r : r.clasificacion = "invalida"
                       /\ Nombra(r.motivo, InfractoresTx(pTx)))

\* a request whose only defect is a tipoServicio that is not a string has
\* been rejected
C1_Witness ==
  /\ HechaValidarSolicitud
  /\ pSol.pres = "obj"
  /\ MalTipadosSol(pSol) = {"tipoServicio"}
  /\ Len(pSal.llamadas) = 1
  /\ pSal.llamadas[1].arg.res.estado = "rechazada"

(***************************************************************************)
(* C2: validarSolicitudConCallback and validarTransaccionConCallback       *)
(* invoke the callback before they return, every time with null as the     *)
(* error argument, and for a record that passes every check the second     *)
(* argument is the input record itself.                                    *)
(***************************************************************************)
CallbackInvocado(sal, entrada, esValida) ==
  /\ Len(sal.llamadas) >= 1
  /\ \A k \in 1..Len(sal.llamadas) : sal.llamadas[k].err = "null"
  /\ esValida => /\ sal.llamadas[1].arg.clase = "registro"
                 /\ sal.llamadas[1].arg.reg = entrada

C2_CallbackSiempreInvocado ==
  /\ HechaValidarSolicitud
       => CallbackInvocado(pSal, pSol, EsValidaSol(pSol))
  /\ HechaValidarTransaccion
       => CallbackInvocado(pSalTx, pTx, EsValidaTx(pTx))

(***************************************************************************)
(* C3 as claimed: no validator (validarOperacion,                          *)
(* validarSolicitudConCallback, validarTransaccionConCallback) raises an   *)
(* exception to its caller, whatever it is given.                          *)
(***************************************************************************)
C3_NingunValidadorLanza ==
  /\ HechaValidarOperacion => ~pVal.lanza
  /\ HechaValidarSolicitud => ~pSal.lanza
  /\ HechaValidarTransaccion => ~pSalTx.lanza

(***************************************************************************)
(* C3 as amended: the two callback validators raise nothing of their own:  *)
(* the only exception that leaves them is one the callback threw, and a    *)
(* failed check reaches the callback as a rejection Result;                *)
(* validarOperacion throws an Error exactly for the records that fail a    *)
(* check, and procesarOperacion turns it into a rechazada Result whose     *)
(* reason is "Error: " followed by the message.                            *)
(***************************************************************************)
C3_SoloOperacionLanza ==
  /\ HechaValidarSolicitud
       => /\ pSal.lanza => (pCb = "lanza" /\ pSal.msg = MsgCallback)
          /\ ~EsValidaSol(pSol)
               => SoloRechazos(pSal, LAMBDA r : r.estado = "rechazada")
  /\ HechaValidarTransaccion
       => /\ pSalTx.lanza => (pCb = "lanza" /\ pSalTx.msg = MsgCallback)
          /\ ~EsValidaTx(pTx)
               => SoloRechazos(pSalTx, LAMBDA r : r.clasificacion = "invalida")
  /\ HechaValidarOperacion => (pVal.lanza <=> ~EsValidaOp(pOp))
  /\ (HechaProcesarOperacion /\ ~EsValidaOp(pOp))
       => /\ pRes.estado = "rechazada"
          /\ pRes.motivo = "Error: " \o validarOperacion(pOp).msg

\* validarOperacion has thrown on an absent record, and
\* validarSolicitudConCallback has handed a failed check to a callback that
\* returns
C3_Witness ==
  \/ /\ HechaValidarOperacion /\ pOp.pres = "null" /\ pVal.lanza
  \/ /\ HechaValidarSolicitud /\ pSol.pres = "null" /\ pCb = "resuelve"
     /\ ~pSal.lanza /\ Len(pSal.llamadas) = 1

(***************************************************************************)
(* C4 as claimed: a transaction with monto <= 0 and tipo "ingreso" or      *)
(* "egreso" is invalida with the coherence reason, whatever its other      *)
(* fields.                                                                 *)
(***************************************************************************)
MotivosIncoherencia ==
  {"Ingreso con monto <= 0 es incoherente.",
   "Egreso con monto <= 0 es incoherente."}

MontoNoPositivo(tr) ==
  /\ tr.pres = "obj"
  /\ EsNumero(tr.monto) /\ JSLe(tr.monto, 0)
  /\ tr.tipo \in {Str("ingreso"), Str("egreso")}

C4_SiempreIncoherente ==
  (HechaValidarTransaccion /\ MontoNoPositivo(pTx))
    => SoloRechazos(pSalTx,
         LAMBDA r : r.clasificacion = "invalida"
                    /\ r.motivo \in MotivosIncoherencia)

(***************************************************************************)
(* C4 as amended: a transaction with monto <= 0 and tipo "ingreso" or      *)
(* "egreso" is always invalida; its reason is the coherence reason of its  *)
(* tipo when id, usuario, monto (finite and not 0), autorizada and fecha   *)
(* pass their own checks, and otherwise the "Error: " reason of the first  *)
(* of those checks that fails.                                             *)
(***************************************************************************)
EstructuraOkTx(tr) ==
  /\ tr.id.ty = "number" /\ tr.id.k = "int" /\ tr.id.n > 0
  /\ EsTexto(tr.usuario) /\ Trim(tr.usuario.s) # ""
  /\ tr.monto.k \in {"int", "frac"} /\ tr.monto # Num(0)
  /\ EsBooleano(tr.autorizada)
  /\ EsFecha(tr.fecha)

C4_IncoherenteSiEstructuraOk ==
  (HechaValidarTransaccion /\ MontoNoPositivo(pTx))
    => SoloRechazos(pSalTx,
         LAMBDA r :
           /\ r.clasificacion = "invalida"
           /\ IF EstructuraOkTx(pTx)
              THEN r.motivo = (IF pTx.tipo.s = "ingreso"
                               THEN "Ingreso con monto <= 0 es incoherente."
                               ELSE "Egreso con monto <= 0 es incoherente.")
              ELSE /\ StartsWith(r.motivo, "Error: ")
                   /\ Nombra(r.motivo, InfractoresTx(pTx)))

\* an egreso with a negative amount and nothing else wrong has been
\* rejected as incoherent
C4_Witness ==
  /\ HechaValidarTransaccion
  /\ MontoNoPositivo(pTx) /\ EstructuraOkTx(pTx)
  /\ pTx.tipo = Str("egreso")
  /\ Len(pSalTx.llamadas) >= 1
  /\ pSalTx.llamadas[1].arg.res.motivo = "Egreso con monto <= 0 es incoherente."

(***************************************************************************)
(* C5: an operation whose valores is the empty array comes back from       *)
(* procesarOperacion as a rechazada Result made by the validation (its     *)
(* reason is the "Error: " of a validation rule, the empty-array one when  *)
(* the id is usable), with no delay and without calcularResultado ever     *)
(* being invoked on it.                                                    *)
(***************************************************************************)
ValoresVacio(op) ==
  op.pres = "obj" /\ op.valores.esArr /\ Len(op.valores.el) = 0

C5_VacioNuncaCalculado ==
  (pLlamada = "procesarOperacion" /\ ValoresVacio(pOp))
    => /\ pFase = "fin"
       /\ pCalculos = 0
       /\ pMs = 0
       /\ pRes.estado = "rechazada"
       /\ StartsWith(pRes.motivo, "Error: ")
       /\ (EsTexto(pOp.id) \/ EsNumero(pOp.id))
            => pRes.motivo = "Error: Operacion " \o JSToStr(pOp.id)
                               \o ": el arreglo de valores esta vacio."

\* an otherwise well-formed, active suma over [] has been rejected
C5_Witness ==
  /\ HechaProcesarOperacion
  /\ ValoresVacio(pOp)
  /\ pOp.id = Num(1) /\ pOp.tipo = Str("suma") /\ pOp.activa = Bool(TRUE)
  /\ pRes.estado = "rechazada"

(***************************************************************************)
(* Runs.                                                                   *)
(***************************************************************************)
EnOperaciones == pc \in {"op_bucle", "op_delay", "op_retorno"}
EnSolicitudes == pc \in {"sol_bucle", "sol_await", "sol_delay", "sol_resuelta"}
EnAnalisis    == pc \in {"tx_bucle", "tx_await", "tx_delay", "tx_resuelta"}
EnCorrida     == EnOperaciones \/ EnSolicitudes \/ EnAnalisis

\* the exercise that is running
Ejercicio ==
  IF EnOperaciones THEN "operaciones"
  ELSE IF EnSolicitudes THEN "solicitudes"
  ELSE IF EnAnalisis THEN "transacciones" ELSE ""

\* <<id, outcome, reason>> of the results the running exercise has collected
LineasActuales ==
  IF EnAnalisis THEN LineasDeTx(resultadosTx) ELSE LineasDe(resultados)

\* number of records of an exercise's sample array
Muestras(ej) ==
  CASE ej = "operaciones"   -> Len(arrObjeto)
    [] ej = "solicitudes"   -> Len(arrSolicitudes(0))
    [] ej = "transacciones" -> Len(arrTransacciones(0))

(***************************************************************************)
(* C6: two runs of the same exercise yield, record by record, the same     *)
(* outcome and the same reason text, and the same summary, whatever the    *)
(* delays (and the date) of either run; a run starts from nothing: its     *)
(* result list holds exactly the records it has finished itself, and the   *)
(* three lists of ejecutarAnalisis add up to that number.                  *)
(***************************************************************************)
C6_Idempotencia ==
  /\ \A a, b \in 1..Len(corridas) :
       corridas[a].ej = corridas[b].ej
         => /\ corridas[a].lineas = corridas[b].lineas
            /\ corridas[a].resumen = corridas[b].resumen
  /\ \A a \in 1..Len(corridas) :
       corridas[a].ej = Ejercicio
         => /\ Len(LineasActuales) <= Len(corridas[a].lineas)
            /\ \A k \in 1..Len(LineasActuales) :
                 LineasActuales[k] = corridas[a].lineas[k]
  /\ EnCorrida => Len(LineasActuales) = i
  /\ EnAnalisis => Len(validas) + Len(sospechosas) + Len(invalidas) = i
  /\ (EnAnalisis /\ i = 0) => (totalIngresos = 0 /\ totalEgresos = 0)

\* two finished runs of one exercise that waited different times
C6_Witness ==
  \E a, b \in 1..Len(corridas) :
    /\ a # b
    /\ corridas[a].ej = corridas[b].ej
    /\ corridas[a].espera # corridas[b].espera
    /\ corridas[a].lineas = corridas[b].lineas

(***************************************************************************)
(* C7: at the summary of a run every collected Result has an outcome of    *)
(* its domain, and the counts printed add up to resultados.length, which   *)
(* is the length of the sample array.                                      *)
(***************************************************************************)
Desenlaces(ej) ==
  IF ej = "transacciones" THEN {"valida", "sospechosa", "invalida"}
  ELSE {"aprobada", "rechazada"}

C7_ConteosCuadran ==
  \A a \in 1..Len(corridas) :
    LET c == corridas[a] IN
    /\ \A k \in 1..Len(c.lineas) : c.lineas[k][2] \in Desenlaces(c.ej)
    /\ Len(c.lineas) = Muestras(c.ej)
    /\ c.resumen.procesadas = Len(c.lineas)
    /\ IF c.ej = "transacciones"
       THEN c.resumen.validas + c.resumen.sospechosas + c.resumen.invalidas
              = Len(c.lineas)
       ELSE c.resumen.aprobadas + c.resumen.rechazadas = Len(c.lineas)

\* a run of ejecutarSolicitudes has printed its summary, with both outcomes
\* counted
C7_Witness ==
  /\ pc = "menu"
  /\ Len(corridas) >= 1
  /\ corridas[Len(corridas)].ej = "solicitudes"
  /\ corridas[Len(corridas)].resumen.aprobadas > 0
  /\ corridas[Len(corridas)].resumen.rechazadas > 0

(***************************************************************************)
(* C8: Results are appended and report lines printed in the order of the   *)
(* sample array; a record is validated, then (unless validation or the     *)
(* activa flag rejects it) delayed and classified, then reported, all      *)
(* before the validation of the next record starts; the summary comes      *)
(* once, after the report of the last record.                              *)
(***************************************************************************)
\* the id of record k of the running exercise's sample array, as text
IdMuestra(k) ==
  CASE EnOperaciones -> JSToStr(arrObjeto[k].id)
    [] EnSolicitudes -> JSToStr(arrSolicitudes(hoy)[k].id)
    [] OTHER         -> JSToStr(arrTransacciones(hoy)[k].id)

\* the steps that may directly precede step k of the trace
PasoEnOrden(tr, k) ==
  LET p == tr[k] IN
  IF k = 1 THEN p.ev = "validar" /\ p.idx = 1
  ELSE LET q == tr[k - 1] IN
       CASE p.ev = "validar"    -> q.ev = "reporte" /\ p.idx = q.idx + 1
         [] p.ev = "delay"      -> q.ev = "validar" /\ p.idx = q.idx
         [] p.ev = "clasificar" -> q.ev = "delay" /\ p.idx = q.idx
         [] p.ev = "reporte"    -> q.ev \in {"validar", "clasificar"}
                                   /\ p.idx = q.idx
         [] p.ev = "resumen"    -> q.ev = "reporte" /\ p.idx = q.idx
                                   /\ k = Len(tr)
         [] OTHER               -> FALSE

\* number of steps ev in the trace
RECURSIVE Pasos(_, _)
Pasos(tr, ev) ==
  IF Len(tr) = 0 THEN 0
  ELSE (IF Head(tr).ev = ev THEN 1 ELSE 0) + Pasos(Tail(tr), ev)

C8_OrdenSecuencial ==
  /\ \A k \in 1..Len(traza) : PasoEnOrden(traza, k)
  /\ Pasos(traza, "resumen") <= 1
  /\ EnCorrida =>
       /\ Pasos(traza, "resumen") = 0
       /\ Pasos(traza, "reporte") = Len(LineasActuales)
       /\ Len(consola) = 2 + Len(LineasActuales)
       /\ \A k \in 1..Len(LineasActuales) :
            /\ LineasActuales[k][1] = IdMuestra(k)
            /\ Contains(consola[2 + k], " " \o IdMuestra(k) \o ": "
                                        \o LineasActuales[k][2] \o " => "
                                        \o LineasActuales[k][3])
  /\ (pc = "menu" /\ Pasos(traza, "resumen") = 1)
       => /\ traza[Len(traza)].idx = Muestras(corridas[Len(corridas)].ej)
          /\ Pasos(traza, "reporte") = Muestras(corridas[Len(corridas)].ej)
          /\ Pasos(traza, "validar") = Muestras(corridas[Len(corridas)].ej)

\* a run of ejecutarOperaciones has printed its summary after seven reports
C8_Witness ==
  /\ pc = "menu"
  /\ Len(traza) > 0
  /\ traza[Len(traza)].ev = "resumen"
  /\ corridas[Len(corridas)].ej = "operaciones"
  /\ Pasos(traza, "reporte") = 7
  /\ Pasos(traza, "delay") = 4

(***************************************************************************)
(* C9: every run of an orchestrator eventually reaches its summary, with   *)
(* one Result for each record of the sample array.                         *)
(***************************************************************************)
ResumenCompleto ==
  /\ pc = "menu"
  /\ Len(corridas) >= 1
  /\ Len(corridas[Len(corridas)].lineas) = Muestras(corridas[Len(corridas)].ej)

C9_SiempreLlegaAlResumen == EnCorrida ~> ResumenCompleto

(***************************************************************************)
(* C10: ejecutarOperaciones over arrObjeto() prints, in order, the seven   *)
(* report lines of the technical document (1 and 2 aprobada with results   *)
(* 60 and 24, 3 to 7 rechazada for an empty array, a non-numeric value, a  *)
(* result of -40, the tipo "division" and being disabled) and then a       *)
(* summary of 2 aprobadas and 5 rechazadas.                                *)
(***************************************************************************)
SalidaEsperadaOperaciones ==
  << "Procesando operaciones (Ejercicio 2)",
     "Operacion 1: aprobada => Operacion realizada correctamente. Resultado = 60",
     "Operacion 2: aprobada => Operacion realizada correctamente. Resultado = 24",
     "Operacion 3: rechazada => Error: Operacion 3: el arreglo de valores esta vacio.",
     "Operacion 4: rechazada => Error: Operacion 4: todos los valores deben ser numericos.",
     "Operacion 5: rechazada => El resultado (-40) es negativo.",
     "Operacion 6: rechazada => Error: Tipo de operacion no reconocido: division",
     "Operacion 7: rechazada => La operacion esta desactivada.",
     "Resumen",
     "Operaciones aprobadas: 2",
     "Operaciones rechazadas: 5" >>

\* the console since the selection of option 1, without that selection's
\* own line
SalidaOperaciones == SubSeq(consola, 2, Len(consola))

C10_SalidaOperaciones ==
  /\ EnOperaciones
       => /\ Len(SalidaOperaciones) = 1 + i
          /\ SalidaOperaciones
               = SubSeq(SalidaEsperadaOperaciones, 1, Len(SalidaOperaciones))
  /\ (pc = "menu" /\ Len(consola) > 1
        /\ consola[2] = SalidaEsperadaOperaciones[1])
       => /\ SubSeq(consola, 2, 12) = SalidaEsperadaOperaciones
          /\ Contains(consola[7], "-40")
          /\ resumen.aprobadas = 2 /\ resumen.rechazadas = 5

\* the run has printed its summary
C10_Witness ==
  /\ pc = "menu"
  /\ Len(consola) >= 12
  /\ consola[2] = "Procesando operaciones (Ejercicio 2)"
  /\ consola[12] = "Operaciones rechazadas: 5"

(***************************************************************************)
(* C11: ejecutarSolicitudes over arrSolicitudes() prints, in order, the six *)
(* report lines of the technical document (1 and 2 aprobada; 3 rechazada   *)
(* for the empty cliente, 4 for the tipoServicio "auditoria", 5 for the    *)
(* prioridad out of range, 6 for being inactive) and then a summary of 6   *)
(* procesadas, 2 aprobadas and 4 rechazadas; requests 3, 5 and 6 are       *)
(* rejected before procesarSolicitudConPromesa is invoked on them.         *)
(***************************************************************************)
SalidaEsperadaSolicitudes ==
  << "Gestionando solicitudes de servicio (Ejercicio 3)",
     "Solicitud 1: aprobada => Solicitud de instalacion aprobada para cliente Carlos.",
     "Solicitud 2: aprobada => Solicitud de mantenimiento aprobada para cliente Ana.",
     "Solicitud 3: rechazada => Error: Solicitud 3: el cliente debe ser un string y no debe estar vacio.",
     "Solicitud 4: rechazada => Tipo de servicio no reconocido: auditoria",
     "Solicitud 5: rechazada => Error: Solicitud 5: la prioridad debe ser un numero entre 1 y 5.",
     "Solicitud 6: rechazada => La solicitud esta inactiva.",
     "Resumen",
     "Solicitudes procesadas: 6",
     "Solicitudes aprobadas: 2",
     "Solicitudes rechazadas: 4" >>

\* the console since the selection of option 2, without that selection's
\* own line
SalidaSolicitudes == SubSeq(consola, 2, Len(consola))

\* the records of the run on which the classifier was invoked
Clasificadas(tr) == {tr[k].idx : k \in {j \in 1..Len(tr) : tr[j].ev = "clasificar"}}

C11_SalidaSolicitudes ==
  /\ EnSolicitudes
       => /\ Len(SalidaSolicitudes) = 1 + i
          /\ SalidaSolicitudes
               = SubSeq(SalidaEsperadaSolicitudes, 1, Len(SalidaSolicitudes))
          /\ Clasificadas(traza) \subseteq {1, 2, 4}
  /\ (pc = "menu" /\ Len(consola) > 1
        /\ consola[2] = SalidaEsperadaSolicitudes[1])
       => /\ SubSeq(consola, 2, 12) = SalidaEsperadaSolicitudes
          /\ Clasificadas(traza) = {1, 2, 4}
          /\ resumen.procesadas = 6
          /\ resumen.aprobadas = 2 /\ resumen.rechazadas = 4

\* the run has printed its summary
C11_Witness ==
  /\ pc = "menu"
  /\ Len(consola) >= 12
  /\ consola[2] = "Gestionando solicitudes de servicio (Ejercicio 3)"
  /\ consola[8] = "Solicitud 6: rechazada => La solicitud esta inactiva."
  /\ consola[12] = "Solicitudes rechazadas: 4"

(***************************************************************************)
(* C12: a run of ejecutarAnalisis over arrTransacciones() gets to print    *)
(* the seven report lines of the technical document (1 and 2 valida, 3     *)
(* invalida as an incoherent ingreso, 4 sospechosa, 5 invalida for the     *)
(* empty usuario, 6 for the monto 0, 7 for the tipo "transfer") and a      *)
(* summary of 7 procesadas, 2 validas, 1 sospechosa, 4 invalidas, ingresos *)
(* 500, egresos 300 and balance 200.                                       *)
(***************************************************************************)
SalidaEsperadaAnalisis ==
  << "Sistema de Transacciones y Control de Riesgo",
     "Transaccion 1: valida => Transaccion ingreso autorizada para usuario Sebas.",
     "Transaccion 2: valida => Transaccion egreso autorizada para usuario Karol.",
     "Transaccion 3: invalida => Ingreso con monto <= 0 es incoherente.",
     "Transaccion 4: sospechosa => Transaccion egreso NO autorizada para usuario Nicolle.",
     "Transaccion 5: invalida => Error: Transaccion 5: el usuario debe ser un string no vacio.",
     "Transaccion 6: invalida => Error: Transaccion 6: el monto debe ser un numero finito distinto de 0.",
     "Transaccion 7: invalida => Tipo no reconocido: transfer",
     "Resumen",
     "Total procesadas (number): 7 - incluye validas, sospechosas e invalidas segun reglas aplicadas.",
     "Validas (array): 2 - datos correctos y autorizadas.",
     "Sospechosas (array): 1 - datos correctos pero NO autorizadas.",
     "Invalidas (array): 4 - errores de estructura o logica." >>

ResumenEsperadoAnalisis ==
  [ResumenNulo EXCEPT !.procesadas = 7, !.validas = 2, !.sospechosas = 1,
                      !.invalidas = 4, !.totalIngresos = 500,
                      !.totalEgresos = 300, !.balanceFinal = 200]

\* the run has printed the expected lines and summary
SalidaAnalisisCompleta ==
  /\ pc = "menu"
  /\ Len(consola) >= 14
  /\ SubSeq(consola, 2, 14) = SalidaEsperadaAnalisis
  /\ resumen = ResumenEsperadoAnalisis
  /\ Contains(consola[Len(consola) - Len(LineasMenu) - 2], ": 500 ")
  /\ Contains(consola[Len(consola) - Len(LineasMenu) - 1], ": 300 ")
  /\ Contains(consola[Len(consola) - Len(LineasMenu)], ": 200 ")

\* what the run has printed so far is the beginning of the expected output
SalidaAnalisisConforme ==
  /\ EnAnalisis
       => /\ Len(consola) = 2 + i
          /\ SubSeq(consola, 2, Len(consola))
               = SubSeq(SalidaEsperadaAnalisis, 1, Len(consola) - 1)
  /\ (pc = "menu" /\ Len(consola) > 1
        /\ consola[2] = SalidaEsperadaAnalisis[1])
       => SalidaAnalisisCompleta

C12_AnalisisReporta == (pc = "tx_bucle" /\ i = 0) ~> SalidaAnalisisCompleta

(***************************************************************************)
(* C13: for every operation that passes validarOperacion and is active,    *)
(* procesarOperacion returns, after its delay: for tipo "suma" the sum of  *)
(* valores and for tipo "multiplicacion" their product, rechazada with the *)
(* number in the reason when it is < 0 and aprobada with the number in the *)
(* reason otherwise; for any other tipo, rechazada as an unrecognized tipo *)
(* that the reason names.                                                  *)
(***************************************************************************)
\* the sum and the product of a sequence of integers, last element first
RECURSIVE SumaDe(_)
SumaDe(el) ==
  IF Len(el) = 0 THEN 0
  ELSE el[Len(el)].n + SumaDe(SubSeq(el, 1, Len(el) - 1))

RECURSIVE ProductoDe(_)
ProductoDe(el) ==
  IF Len(el) = 0 THEN 1
  ELSE el[Len(el)].n * ProductoDe(SubSeq(el, 1, Len(el) - 1))

\* the text of the number the operation stands for ("NaN" once a NaN is
\* among the values), and whether that number is below zero
SonEnteros(el) == \A k \in 1..Len(el) : el[k].k = "int"

NumeroEsperado(op) ==
  IF op.tipo = Str("suma") THEN SumaDe(op.valores.el)
  ELSE ProductoDe(op.valores.el)

TextoEsperado(op) ==
  IF SonEnteros(op.valores.el) THEN ToString(NumeroEsperado(op)) ELSE "NaN"

EsNegativoEsperado(op) ==
  SonEnteros(op.valores.el) /\ NumeroEsperado(op) < 0

\* the operation passes validation and is active
PasaYActiva(op) == ~validarOperacion(op).lanza /\ op.activa = Bool(TRUE)

C13_CalculoYDecision ==
  (HechaProcesarOperacion /\ PasaYActiva(pOp))
    => /\ pRes.id = pOp.id
       /\ pCalculos = 1
       /\ IF pOp.tipo \notin {Str("suma"), Str("multiplicacion")}
          THEN /\ pRes.estado = "rechazada"
               /\ pRes.motivo
                    = "Error: Tipo de operacion no reconocido: " \o pOp.tipo.s
          ELSE IF EsNegativoEsperado(pOp)
          THEN /\ pRes.estado = "rechazada"
               /\ pRes.motivo
                    = "El resultado (" \o TextoEsperado(pOp) \o ") es negativo."
          ELSE /\ pRes.estado = "aprobada"
               /\ pRes.motivo
                    = "Operacion realizada correctamente. Resultado = "
                      \o TextoEsperado(pOp)

\* a sum of exactly 0 has been approved
C13_Witness ==
  /\ HechaProcesarOperacion
  /\ PasaYActiva(pOp)
  /\ pOp.tipo = Str("suma")
  /\ pOp.valores.el = <<Num(-3), Num(3)>>
  /\ pRes.estado = "aprobada"
  /\ pRes.motivo = "Operacion realizada correctamente. Resultado = 0"

(***************************************************************************)
(* C14: for every request that passes validation, the promise of           *)
(* procesarSolicitudConPromesa resolves with aprobada and a reason naming  *)
(* the client and the kind when tipoServicio is instalacion, mantenimiento *)
(* or soporte in any letter case, and with rechazada and a reason naming   *)
(* the kind otherwise.                                                     *)
(***************************************************************************)
\* a and b are the same text up to the case of their letters
IgualSinCaja(a, b) ==
  /\ Len(a) = Len(b)
  /\ \A k \in 1..Len(a) :
       LET x == SubSeq(a, k, k)
           y == SubSeq(b, k, k)
       IN  \/ x = y
           \/ \E j \in 1..Len(Mayusculas) :
                {x, y} = {SubSeq(Mayusculas, j, j), SubSeq(Minusculas, j, j)}

\* the request passes every check of the validator and is active
PasaValidacionSol(so) == ~ChequeosSolicitud(so).lanza /\ so.activo = Bool(TRUE)

HechaProcesarSolicitud ==
  pLlamada = "procesarSolicitudConPromesa" /\ pFase = "fin"

C14_ClasificaSolicitud ==
  (HechaProcesarSolicitud /\ PasaValidacionSol(pSol))
    => /\ pRes.id = pSol.id
       /\ IF \E t \in {"instalacion", "mantenimiento", "soporte"} :
               IgualSinCaja(pSol.tipoServicio.s, t)
          THEN /\ pRes.estado = "aprobada"
               /\ Contains(pRes.motivo, pSol.cliente.s)
               /\ Contains(pRes.motivo, pSol.tipoServicio.s)
          ELSE /\ pRes.estado = "rechazada"
               /\ Contains(pRes.motivo, "no reconocido")
               /\ Contains(pRes.motivo, pSol.tipoServicio.s)

\* a kind written with a capital letter has been approved
C14_Witness ==
  /\ HechaProcesarSolicitud
  /\ PasaValidacionSol(pSol)
  /\ pSol.tipoServicio = Str("Instalacion")
  /\ pSol.cliente = Str("Ana")
  /\ pRes.estado = "aprobada"
  /\ pRes.motivo = "Solicitud de Instalacion aprobada para cliente Ana."

(***************************************************************************)
(* C15: for every transaction that passes validation, the promise of       *)
(* procesarTransaccionConPromesa resolves with invalida when tipo is not   *)
(* ingreso or egreso in any letter case; otherwise with valida when        *)
(* autorizada is true and sospechosa when it is false, and then the result *)
(* carries the kind and the amount of the transaction.                     *)
(***************************************************************************)
\* the transaction passes every check and the coherence rule of the
\* validator
PasaValidacionTx(tr) == ~ChequeosTransaccion(tr).lanza /\ Incoherencia(tr) = ""

HechaProcesarTransaccion ==
  pLlamada = "procesarTransaccionConPromesa" /\ pFase = "fin"

C15_ClasificaTransaccion ==
  (HechaProcesarTransaccion /\ PasaValidacionTx(pTx))
    => /\ pResTx.id = pTx.id
       /\ IF ~\E t \in {"ingreso", "egreso"} : IgualSinCaja(pTx.tipo.s, t)
          THEN pResTx.clasificacion = "invalida"
          ELSE /\ pResTx.clasificacion
                    = (IF pTx.autorizada = Bool(TRUE) THEN "valida"
                       ELSE "sospechosa")
               /\ pResTx.monto = pTx.monto
               /\ pResTx.tipo.ty = "string"
               /\ IgualSinCaja(pResTx.tipo.s, pTx.tipo.s)

\* an unauthorized transaction has come out sospechosa with its payload
C15_Witness ==
  /\ HechaProcesarTransaccion
  /\ PasaValidacionTx(pTx)
  /\ pTx.tipo = Str("INGRESO")
  /\ pTx.autorizada = Bool(FALSE)
  /\ pResTx.clasificacion = "sospechosa"
  /\ pResTx.tipo = Str("ingreso")
  /\ pResTx.monto = Num(500)

(***************************************************************************)
(* C16: for every input, an absent record and a record with missing fields *)
(* included, procesarOperacion, procesarSolicitudConPromesa and            *)
(* procesarTransaccionConPromesa end with a Result of their domain; when   *)
(* something fails inside them the Result is rechazada / invalida and its  *)
(* reason carries the message of the error.                                *)
(***************************************************************************)
\* the message of the error raised inside procesarOperacion, "" if none
FalloInternoOp(op) ==
  IF validarOperacion(op).lanza THEN validarOperacion(op).msg
  ELSE IF op.activa = Bool(TRUE) /\ calcularResultado(op).lanza
    THEN calcularResultado(op).msg
  ELSE ""

\* the classifiers of requests and transactions fail on reading a property
\* of an absent record, and the first also on a tipoServicio without
\* toLowerCase
FallaInternaSol(so) == so.pres # "obj" \/ so.tipoServicio.ty # "string"
FallaInternaTx(tr)  == tr.pres # "obj"

C16_ClasificadoresNoLanzan ==
  /\ HechaProcesarOperacion
       => /\ pRes.estado \in {"aprobada", "rechazada"}
          /\ FalloInternoOp(pOp) # ""
               => /\ pRes.estado = "rechazada"
                  /\ pRes.motivo = "Error: " \o FalloInternoOp(pOp)
          /\ pOp.pres # "obj"
               => /\ pRes.id = Str("desconocido")
                  /\ Contains(pRes.motivo, "vacia o indefinida")
  /\ HechaProcesarSolicitud
       => /\ pRes.estado \in {"aprobada", "rechazada"}
          /\ FallaInternaSol(pSol)
               => /\ pRes.estado = "rechazada"
                  /\ StartsWith(pRes.motivo, "Error: ")
                  /\ Len(pRes.motivo) > Len("Error: ")
          /\ pSol.pres # "obj"
               => /\ pRes.id = Str("desconocido")
                  /\ Contains(pRes.motivo, "Cannot read properties of "
                                           \o pSol.pres)
  /\ HechaProcesarTransaccion
       => /\ pResTx.clasificacion \in {"valida", "sospechosa", "invalida"}
          /\ FallaInternaTx(pTx)
               => /\ pResTx.clasificacion = "invalida"
                  /\ pResTx.id = Str("desconocido")
                  /\ StartsWith(pResTx.motivo, "Error de procesamiento: ")
                  /\ Contains(pResTx.motivo, "Cannot read properties of "
                                             \o pTx.pres)

\* procesarOperacion has been given null
C16_Witness ==
  /\ HechaProcesarOperacion
  /\ pOp.pres = "null"
  /\ pRes.estado = "rechazada"
  /\ pRes.motivo = "Error: La operacion se encuentra vacia o indefinida."

(***************************************************************************)
(* C17: throughout a run of ejecutarAnalisis and at its summary,           *)
(* totalIngresos is the sum of the amounts of the results classified       *)
(* valida of kind ingreso, totalEgresos the sum for those classified       *)
(* valida of kind egreso, and the balance printed is their difference;     *)
(* sospechosa and invalida results add nothing to either total.            *)
(***************************************************************************)
\* the sum of the amounts of the results of rs of one classification and
\* one kind, last result first
RECURSIVE SumaMontos(_, _, _)
SumaMontos(rs, clasificacion, tipo) ==
  IF Len(rs) = 0 THEN 0
  ELSE LET r == rs[Len(rs)] IN
       (IF r.clasificacion = clasificacion /\ r.tipo = Str(tipo)
        THEN r.monto.n ELSE 0)
       + SumaMontos(SubSeq(rs, 1, Len(rs) - 1), clasificacion, tipo)

\* the last finished run is one of ejecutarAnalisis, its results still held
TrasAnalisis ==
  /\ pc = "menu"
  /\ Len(corridas) >= 1
  /\ corridas[Len(corridas)].ej = "transacciones"
  /\ opcion = "3"

C17_TotalesSoloValidas ==
  /\ (EnAnalisis \/ TrasAnalisis)
       => /\ totalIngresos = SumaMontos(resultadosTx, "valida", "ingreso")
          /\ totalEgresos = SumaMontos(resultadosTx, "valida", "egreso")
  /\ TrasAnalisis
       => /\ resumen.totalIngresos = SumaMontos(resultadosTx, "valida", "ingreso")
          /\ resumen.totalEgresos = SumaMontos(resultadosTx, "valida", "egreso")
          /\ resumen.balanceFinal
               = resumen.totalIngresos - resumen.totalEgresos

\* the summary of a run with valid and suspicious amounts has been printed
C17_Witness ==
  /\ TrasAnalisis
  /\ Len(resultadosTx) = 7
  /\ SumaMontos(resultadosTx, "sospechosa", "egreso") = 150
  /\ resumen.totalIngresos = 500
  /\ resumen.totalEgresos = 300
  /\ resumen.balanceFinal = 200

(***************************************************************************)
(* C18: for every value of Math.random() in [0, 1), tiempoAleatorio()      *)
(* returns an integer d with 300 <= d <= 2000, and both 300 and 2000 are   *)
(* returned for some value.                                                *)
(***************************************************************************)
HechaTiempoAleatorio == pLlamada = "tiempoAleatorio" /\ pFase = "fin"

C18_RangoTiempo ==
  /\ HechaTiempoAleatorio => pMs \in 300..2000
  /\ \E r \in Aleatorios : tiempoAleatorio(r) = 300
  /\ \E r \in Aleatorios : tiempoAleatorio(r) = 2000

\* the longest delay has been drawn
C18_Witness == HechaTiempoAleatorio /\ pMs = 2000

(***************************************************************************)
(* C19: when the selection read at the prompt is empty after trimming, or  *)
(* is not one of the options 1 to 4, mainMenu prints a warning (one text   *)
(* for the empty selection, another for the unknown one), starts no        *)
(* exercise, leaves salir false and prints the menu again.                 *)
(***************************************************************************)
Opciones == {"1", "2", "3", "4"}

\* nothing of any exercise has moved in the step
SinEjercicio ==
  UNCHANGED <<iniciadas, corridas, traza, i, resultados, resultadosTx,
              validas, sospechosas, invalidas, totalIngresos, totalEgresos,
              resumen>>

AvisoDe(op) ==
  IF op = ""
  THEN "Entrada vacia. Por favor ingrese una opcion valida (1, 2 , 3 o 4)."
  ELSE "Opcion invalida. Por favor ingrese las opciones 1, 2, 3 o 4."

C19_SeleccionNoListada ==
  [][(pc = "menu" /\ opcion' \notin Opciones \cup {SinOpcion})
       => /\ consola' = <<AvisoDe(opcion')>> \o LineasMenu
          /\ pc' = "menu"
          /\ salir' = FALSE
          /\ SinEjercicio]_vars

\* after a finished run, an unknown selection has been answered with the
\* warning and the menu
C19_Witness ==
  /\ pc = "menu"
  /\ opcion = "5"
  /\ Len(corridas) = 1
  /\ ~salir
  /\ consola = <<AvisoDe("5")>> \o LineasMenu

(***************************************************************************)
(* C20: an exception raised inside mainMenu's try (the read of the         *)
(* selection fails) does not end the loop: it is reported, salir stays     *)
(* false and the menu is printed again; the loop ends only by option 4.    *)
(* The exercises raise nothing to mainMenu.                                *)
(***************************************************************************)
C20_ErrorNoTermina ==
  /\ [](salir <=> pc = "fin")
  /\ [](pc = "fin" => opcion = "4")
  /\ [][(pc = "menu" /\ opcion' = SinOpcion)
          => /\ Len(consola') = 2 + Len(LineasMenu)
             /\ StartsWith(consola'[1], "Error en el menu: ")
             /\ Contains(consola'[1], "Cannot read properties of null")
             /\ consola'[2] = "Intentalo nuevamente, estamos trabajando en ello."
             /\ SubSeq(consola', 3, Len(consola')) = LineasMenu
             /\ pc' = "menu"
             /\ salir' = FALSE
             /\ SinEjercicio]_vars
  /\ [][(EnCorrida /\ ~EnCorrida') => (pc' = "menu" /\ salir' = FALSE)]_vars

\* after a finished run, a failed read has been reported and the menu is
\* back
C20_Witness ==
  /\ pc = "menu"
  /\ opcion = SinOpcion
  /\ Len(corridas) = 1
  /\ ~salir
  /\ Len(consola) = 7
  /\ consola[2] = "Intentalo nuevamente, estamos trabajando en ello."

(***************************************************************************)
(* C21 as claimed: in each of the three domains the reason of a Result     *)
(* that comes from a runtime failure inside the classifier does not start  *)
(* with the prefix that the reason of a failed validation check starts     *)
(* with, so the two kinds can be told apart from the reason text.          *)
(***************************************************************************)
PrefijoValidacion == "Error: "

\* the classifier itself has failed on a record whose checks all pass (an
\* operation: calcularResultado has thrown), or on one it cannot read
FalloAlCalcular(op) ==
  /\ ~validarOperacion(op).lanza
  /\ op.activa = Bool(TRUE)
  /\ calcularResultado(op).lanza

\* the reason the validator of the domain has handed to its callback for a
\* record that fails a check
MotivoValidacionSol == pSal.llamadas[1].arg.res.motivo
MotivoValidacionTx  == pSalTx.llamadas[1].arg.res.motivo

IdEsperado(r, idInvalido) ==
  IF r.pres # "obj" \/ idInvalido THEN Str("desconocido") ELSE r.id

\* the validator has handed a rejection Result to its callback
RechazoDeValidador(sal) ==
  Len(sal.llamadas) >= 1 /\ sal.llamadas[1].arg.clase = "resultado"

C22_IdCentinela ==
  /\ (HechaProcesarOperacion /\ pRes.estado = "rechazada")
       => pRes.id = IdEsperado(pOp, "id" \in InfractoresOp(pOp))
  /\ (HechaValidarSolicitud /\ RechazoDeValidador(pSal))
       => pSal.llamadas[1].arg.res.id
            = IdEsperado(pSol, "id" \in InfractoresSol(pSol))
  /\ (HechaValidarTransaccion /\ RechazoDeValidador(pSalTx))
       => pSalTx.llamadas[1].arg.res.id
            = IdEsperado(pTx, "id" \in InfractoresTx(pTx))

\* what the code does: the sentinel stands in only for an absent record or
\* an id that is null or undefined; any other id, valid or not, is kept
IdCentinelaSoloSiNulo ==
  /\ (HechaProcesarOperacion /\ pRes.estado = "rechazada")
       => pRes.id = IdEsperado(pOp, pOp.id.ty \in {"undefined", "null"})
  /\ (HechaValidarSolicitud /\ RechazoDeValidador(pSal))
       => pSal.llamadas[1].arg.res.id
            = IdEsperado(pSol, pSol.id.ty \in {"undefined", "null"})
  /\ (HechaValidarTransaccion /\ RechazoDeValidador(pSalTx))
       => pSalTx.llamadas[1].arg.res.id
            = IdEsperado(pTx, pTx.id.ty \in {"undefined", "null"})

(***************************************************************************)
(* C23: no call of a validator or a classifier changes a field of the      *)
(* record it was given; what a validator hands to its callback is either   *)
(* the input record itself, unchanged, or a rejection Result built for the *)
(* occasion, and what a classifier returns is a Result, never the record.  *)
(***************************************************************************)
\* the argument of an invocation of the callback: the record handed in, or
\* a Result and no record
ArgNuevoOEntrada(arg, entrada) ==
  IF arg.clase = "registro" THEN arg.reg = entrada
  ELSE arg.clase = "resultado" /\ arg.reg.pres # "obj"

CamposResultado   == {"id", "estado", "motivo"}
CamposResultadoTx == {"id", "clasificacion", "motivo", "tipo", "monto"}

EsLineaSolicitud(linea, k) ==
  \E estado \in {"aprobada", "rechazada"} :
    LET cabeza == "Solicitud " \o JSToStr(arrSolicitudes(hoy)[k].id) \o ": "
                  \o estado \o " => "
    IN  /\ StartsWith(linea, cabeza)
        /\ Len(linea) > Len(cabeza)
        /\ resultados[k].estado = estado
        /\ linea = cabeza \o resultados[k].motivo

SalidaCompletaSolicitudes ==
  LET n == Len(arrSolicitudes(hoy)) IN
  /\ pc = "menu"
  /\ opcion = "2"
  /\ Len(consola) >= n + 6
  /\ consola[2] = "Gestionando solicitudes de servicio (Ejercicio 3)"
  /\ Len(resultados) = n
  /\ \A k \in 1..n : EsLineaSolicitud(consola[2 + k], k)
  /\ consola[n + 3] = "Resumen"
  /\ consola[n + 4] = "Solicitudes procesadas: " \o ToString(n)
  /\ consola[n + 5] = "Solicitudes aprobadas: "
                        \o ToString(Cuenta(resultados, "aprobada"))
  /\ consola[n + 6] = "Solicitudes rechazadas: "
                        \o ToString(Cuenta(resultados, "rechazada"))
  /\ Cuenta(resultados, "aprobada") + Cuenta(resultados, "rechazada") = n

EntreUnoYCinco(p) ==
  /\ p.ty = "number"
  /\ CASE p.k = "int"  -> 1 <= p.n /\ p.n <= 5
       [] p.k = "frac" -> 1 <= p.n /\ p.n + 1 <= 5
       [] OTHER        -> FALSE

\* the validator has handed the request itself to its callback
SolicitudPasada ==
  /\ HechaValidarSolicitud
  /\ Len(pSal.llamadas) >= 1
  /\ pSal.llamadas[1].arg.clase = "registro"

C25_PrioridadYCliente ==
  SolicitudPasada
    => /\ EntreUnoYCinco(pSol.prioridad)
       /\ pSol.cliente.ty = "string"
       /\ Trim(pSol.cliente.s) # ""

\* what the code ensures: the prioridad is of type number and is neither
\* below 1 nor above 5 as JavaScript compares, which NaN is not either
PrioridadNoFueraDeRango ==
  SolicitudPasada
    => /\ pSol.prioridad.ty = "number"
       /\ (EntreUnoYCinco(pSol.prioridad) \/ pSol.prioridad = NaN)
       /\ pSol.cliente.ty = "string"
       /\ Trim(pSol.cliente.s) # ""

(***************************************************************************)
(* C26: each validator applies its checks in one fixed order and stops at  *)
(* the first that fails: the reason of the rejection is the reason of the  *)
(* earliest failing check, whatever later checks the record fails as well. *)
(* Transactions: existence, id, usuario, monto, tipo, autorizada, fecha,   *)
(* coherence; requests: existence, id, cliente, tipoServicio, prioridad,   *)
(* activo, fechaSolicitud, inactive; operations: existence, id, valores is *)
(* an array, non-empty, all numeric, tipo, activa.                         *)
(***************************************************************************)
\* which checks the record fails, each judged on its own, in the order of
\* the claim
FallasOperacion(op) ==
  << op.pres # "obj",
     ~(EsTexto(op.id) \/ EsNumero(op.id)),
     ~op.valores.esArr,
     Len(op.valores.el) = 0,
     \E k \in 1..Len(op.valores.el) : ~EsNumero(op.valores.el[k]),
     ~EsTexto(op.tipo),
     ~EsBooleano(op.activa) >>

FallasSolicitud(so) ==
  << so.pres # "obj",
     ~EsNumero(so.id),
     ~EsTexto(so.cliente) \/ Trim(so.cliente.s) = "",
     ~EsTexto(so.tipoServicio),
     ~EsNumero(so.prioridad) \/ JSLt(so.prioridad, 1) \/ JSGt(so.prioridad, 5),
     ~EsBooleano(so.activo),
     ~EsFecha(so.fechaSolicitud),
     so.activo = Bool(FALSE) >>

FallasTransaccion(tr) ==
  << tr.pres # "obj",
     ~(EsNumero(tr.id) /\ tr.id.k = "int" /\ tr.id.n > 0),
     ~EsTexto(tr.usuario) \/ Trim(tr.usuario.s) = "",
     ~(EsNumero(tr.monto) /\ tr.monto.k \in {"int", "frac"} /\ tr.monto # Num(0)),
     ~EsTexto(tr.tipo),
     ~EsBooleano(tr.autorizada),
     ~EsFecha(tr.fecha),
     /\ EsTexto(tr.tipo)
     /\ ToLowerCase(tr.tipo.s) \in {"ingreso", "egreso"}
     /\ EsNumero(tr.monto) /\ JSLe(tr.monto, 0) >>

\* the words by which the reason of each check is known
FrasesOperacion ==
  << "vacia o indefinida", "el id \"", "debe ser un arreglo",
     "valores esta vacio", "deben ser numericos", "el tipo debe ser",
     "'activa' debe ser" >>

FrasesSolicitud ==
  << "vacia o indefinida", "no es numerico", "el cliente debe ser",
     "el tipo de servicio debe ser", "la prioridad debe ser",
     "'activo' debe ser", "la fecha debe ser", "esta inactiva" >>

FrasesTransaccion ==
  << "vacia o indefinida", "debe ser entero positivo", "el usuario debe ser",
     "el monto debe ser", "el tipo debe ser", "'autorizada' debe ser",
     "la fecha debe ser", "es incoherente" >>

\* the position of the earliest failing check, 0 when every check passes
PrimeraFalla(fallas) ==
  IF \E k \in 1..Len(fallas) : fallas[k]
  THEN CHOOSE k \in 1..Len(fallas) :
         fallas[k] /\ \A j \in 1..(k - 1) : ~fallas[j]
  ELSE 0

\* the reason is that of check k and of no other
MotivoDelChequeo(motivo, frases, k) ==
  \A j \in 1..Len(frases) : Contains(motivo, frases[j]) <=> (j = k)

C26_OrdenDeChequeos ==
  /\ HechaValidarOperacion
       => LET k == PrimeraFalla(FallasOperacion(pOp)) IN
          IF k = 0 THEN ~pVal.lanza
          ELSE pVal.lanza /\ MotivoDelChequeo(pVal.msg, FrasesOperacion, k)
  /\ HechaValidarSolicitud
       => LET k == PrimeraFalla(FallasSolicitud(pSol)) IN
          IF k = 0 THEN ~RechazoDeValidador(pSal)
          ELSE /\ RechazoDeValidador(pSal)
               /\ MotivoDelChequeo(pSal.llamadas[1].arg.res.motivo,
                                   FrasesSolicitud, k)
  /\ HechaValidarTransaccion
       => LET k == PrimeraFalla(FallasTransaccion(pTx)) IN
          IF k = 0 THEN ~RechazoDeValidador(pSalTx)
          ELSE /\ RechazoDeValidador(pSalTx)
               /\ MotivoDelChequeo(pSalTx.llamadas[1].arg.res.motivo,
                                   FrasesTransaccion, k)

\* a transaction with an empty usuario, a monto of 0 and no fecha has been
\* rejected for its usuario
C26_Witness ==
  /\ HechaValidarTransaccion
  /\ pTx.pres = "obj"
  /\ pTx.id = Num(1)
  /\ pTx.usuario = Str("")
  /\ pTx.monto = Num(0)
  /\ pTx.fecha = Undef
  /\ RechazoDeValidador(pSalTx)
  /\ Contains(pSalTx.llamadas[1].arg.res.motivo, "el usuario debe ser")

(***************************************************************************)
(* C27: within a run, a record that its validator rejects (a request with  *)
(* activo false and an incoherent transaction included) and an operation   *)
(* with activa false get their Result with no latency step and with no     *)
(* invocation of the classifier; every other record waits exactly once,    *)
(* and that wait ends before the record is classified and before the next  *)
(* record is started.                                                      *)
(***************************************************************************)
\* the exercise of the trace: the one running, or the one just finished
EjercicioDeTraza ==
  IF EnCorrida THEN Ejercicio
  ELSE IF Len(traza) > 0 /\ traza[Len(traza)].ev = "resumen" /\ Len(corridas) > 0
    THEN corridas[Len(corridas)].ej
  ELSE ""

\* the k-th record of the sample array gets its Result without a wait
SinLatencia(ej, k) ==
  CASE ej = "operaciones" ->
         ~EsValidaOp(arrObjeto[k]) \/ arrObjeto[k].activa = Bool(FALSE)
    [] ej = "solicitudes" -> ~EsValidaSol(arrSolicitudes(hoy)[k])
    [] OTHER              -> ~EsValidaTx(arrTransacciones(hoy)[k])

\* the positions of the trace at which step ev of record k stands
PosicionesDe(tr, ev, k) == {j \in 1..Len(tr) : tr[j].ev = ev /\ tr[j].idx = k}

C27_LatenciaUnaVez ==
  EjercicioDeTraza # ""
    => /\ \A k \in 1..Pasos(traza, "reporte") :
            LET esperas == PosicionesDe(traza, "delay", k)
                clasifs == PosicionesDe(traza, "clasificar", k)
            IN  IF SinLatencia(EjercicioDeTraza, k)
                THEN esperas = {} /\ clasifs = {}
                ELSE /\ Cardinality(esperas) = 1
                     /\ Cardinality(clasifs) = 1
                     /\ \A d \in esperas :
                          /\ \A c \in clasifs : d < c
                          /\ \A j \in 1..Len(traza) :
                               (traza[j].ev = "validar" /\ traza[j].idx > k)
                                 => d < j
                          /\ \A j \in 1..Len(traza) :
                               (traza[j].ev = "reporte" /\ traza[j].idx = k)
                                 => d < j
       /\ \A j \in 1..Len(traza) :
            traza[j].ev = "delay" => traza[j].ms >= 1
       /\ \A k \in 1..Muestras(EjercicioDeTraza) :
            Cardinality(PosicionesDe(traza, "delay", k)) <= 1

\* a run of ejecutarSolicitudes has ended: three of its six requests have
\* waited, the other three were rejected at validation
C27_Witness ==
  /\ pc = "menu"
  /\ EjercicioDeTraza = "solicitudes"
  /\ Pasos(traza, "reporte") = 6
  /\ Pasos(traza, "delay") = 3
  /\ Pasos(traza, "clasificar") = 3
  /\ PosicionesDe(traza, "delay", 6) = {}

ValidaDePuntaAPunta(tr) ==
  /\ PasaValidacionTx(tr)
  /\ procesarTransaccionConPromesa(tr).clasificacion = "valida"

MontosValidosPositivos ==
  \A tr \in TransaccionesPosibles :
    ValidaDePuntaAPunta(tr)
      => /\ EsNumero(tr.monto)
         /\ JSGt(tr.monto, 0)
         /\ procesarTransaccionConPromesa(tr).monto = tr.monto
         /\ procesarTransaccionConPromesa(tr).tipo
              \in {Str("ingreso"), Str("egreso")}

C29_TotalesCrecen ==
  /\ MontosValidosPositivos
  /\ []((EnAnalisis \/ TrasAnalisis) => (totalIngresos >= 0 /\ totalEgresos >= 0))
  /\ [][(EnAnalisis /\ EnAnalisis')
          => LET masIngresos == totalIngresos' - totalIngresos
                 masEgresos  == totalEgresos' - totalEgresos
             IN  /\ masIngresos >= 0
                 /\ masEgresos >= 0
                 /\ IF Len(validas') > Len(validas)
                    THEN /\ validas' = Append(validas, procesada)
                         /\ procesada.clasificacion = "valida"
                         /\ procesada.monto.n > 0
                         /\ \/ masIngresos = procesada.monto.n /\ masEgresos = 0
                            \/ masIngresos = 0 /\ masEgresos = procesada.monto.n
                    ELSE masIngresos = 0 /\ masEgresos = 0]_vars

\* two valid transactions in, an ingreso and an egreso, and the incoherent
\* third one reported without a change of the totals
C29_Witness ==
  /\ pc = "tx_bucle"
  /\ i = 3
  /\ Len(validas) = 2
  /\ totalIngresos = 500
  /\ totalEgresos = 300
  /\ resultadosTx[3].clasificacion = "invalida"

(***************************************************************************)
(* C30: validarSolicitudConCallback and validarTransaccionConCallback      *)
(* invoke the callback they are given at most once in a call, also when    *)
(* the callback throws while it is invoked.                                *)
(***************************************************************************)
C30_CallbackUnaVez ==
  /\ HechaValidarSolicitud => Len(pSal.llamadas) <= 1
  /\ HechaValidarTransaccion => Len(pSalTx.llamadas) <= 1

\* what the code ensures: a callback that returns is invoked at most once;
\* one that throws is invoked once when a check has failed (the invocation
\* is in the catch block) and twice otherwise, first from the try block and
\* then, with a rejection made of its own message, from the catch block
CallbackDosVecesSiLanza ==
  /\ HechaValidarSolicitud
       => /\ pCb = "resuelve" => Len(pSal.llamadas) <= 1
          /\ pCb = "lanza"
               => /\ pSal.lanza
                  /\ Len(pSal.llamadas)
                       = (IF ChequeosSolicitud(pSol).lanza THEN 1 ELSE 2)
  /\ HechaValidarTransaccion
       => /\ pCb = "resuelve" => Len(pSalTx.llamadas) <= 1
          /\ (pCb = "lanza" /\ Len(pSalTx.llamadas) > 0)
               => /\ pSalTx.lanza
                  /\ Len(pSalTx.llamadas)
                       = (IF ChequeosTransaccion(pTx).lanza THEN 1 ELSE 2)

====
